---- MODULE Spec2Model ----
(***************************************************************************)
(* Backup/trash store and delete orchestrator of the main process:         *)
(* backupFile, ipcMain.handle('delete-files'), getBackupsList and          *)
(* restoreBackup, over a file system shared by every invocation.           *)
(*                                                                         *)
(* An invocation is a sequence of steps, one per awaited file-system call: *)
(* a step is the effect of the call together with the synchronous code     *)
(* that runs when it settles, up to the next awaited call.  Steps of       *)
(* different invocations interleave, as the event loop interleaves them.   *)
(* Every awaited call may fail (an I/O error) as well as succeed.          *)
(***************************************************************************)
EXTENDS Integers, Sequences, FiniteSets, TLC

\* ------------------------------------------------------------------ bounds
\* Clock readings are 0..MaxClock (milliseconds, as toISOString prints them).
MaxClock == 1
\* The longest path list handed to delete-files.
MaxPaths == 2
\* Invocations of delete-files and restore-backup in one behaviour.
MaxCalls == 3
\* Awaited calls that fail with an I/O error in one behaviour.
MaxFaults == 1
\* Invocations of scan-directory and find-duplicates in one behaviour.
MaxScans == 2
\* The largest maxDepth a caller passes to scan-directory.
MaxDepthArg == 2
\* The longest path list handed to find-duplicates.
MaxDupPaths == 2
\* Calls of the classifier, and steps of the clock, in one behaviour.
MaxClassify == 2
MaxTicks == 4
\* Calls of handleScan, and scan-batch events sent, in one behaviour.
MaxUiScans == 3
MaxUiBatches == 2
\* The longest path list handed to one of two concurrent find-duplicates.
MaxPairPaths == 2

\* -------------------------------------------------------------- file names
\* A file name is a sequence of string tokens; concatenation of strings is
\* concatenation of sequences.  MetaExt is the literal '.meta.json'.
MetaExt == ".meta.json"
\* new Date().toISOString().replace(/:/g, '-') followed by '_', per reading.
Timestamps == <<"T0_", "T1_", "T2_", "T3_">>
Timestamp(t) == Timestamps[t + 1]

\* app.getPath('userData')/trash
TrashDir == "trash"
\* Directories that exist; GoneDir names one that does not.
Dirs == {"a", "b", "."}
GoneDir == "gone"

NoPath == [dir |-> "", name |-> <<>>]
MkPath(d, n) == [dir |-> d, name |-> n]
\* path.basename, path.dirname, path.join(dir, name)
Basename(p) == p.name
Dirname(p) == p.dir
\* String.prototype.endsWith('.meta.json')
EndsWithMeta(n) == Len(n) > 0 /\ n[Len(n)] = MetaExt

\* `${timestamp}_${fileName}` under the trash directory
BackupPathOf(t, p) == MkPath(TrashDir, <<Timestamp(t)>> \o Basename(p))
\* `${backupPath}.meta.json`
MetadataPathOf(bp) == MkPath(Dirname(bp), Append(Basename(bp), MetaExt))
\* metadata.originalPath || 'Unknown'
UnknownPath == MkPath(".", <<"Unknown">>)

\* The files present when the program starts, and the paths callers name.
FileAX == MkPath("a", <<"x">>)
FileBX == MkPath("b", <<"x">>)
FileAXM == MkPath("a", <<"x", MetaExt>>)
FileGone == MkPath(GoneDir, <<"x">>)
\* A path inside the trash directory, as a caller may type it for a restore.
FileTrashY == MkPath(TrashDir, <<"y">>)
UserPaths == {FileAX, FileBX, FileAXM}

\* ------------------------------------------------------------- file system
\* A file: its bytes, its modification time, and whether its text is the
\* JSON of a sidecar (then originalPath and size are the fields of it).
DataFile(bytes, mt) ==
  [bytes |-> bytes, mtime |-> mt, json |-> FALSE, originalPath |-> NoPath, size |-> 0]
\* JSON.stringify(metadata, null, 2) written by backupFile
SidecarFile(orig, size, mt) ==
  [bytes |-> <<0>>, mtime |-> mt, json |-> TRUE, originalPath |-> orig, size |-> size]
\* A file opened for writing whose write failed: empty.
TruncatedFile(mt) == DataFile(<<>>, mt)

\* fs.existsSync(p) for a file
ExistsSync(fsys, p) == p \in DOMAIN fsys
\* fs.existsSync(dir)
DirExists(trashThere, d) == d \in Dirs \/ (d = TrashDir /\ trashThere)
\* stats.size
SizeOf(f) == Len(f.bytes)

WriteFile(fsys, p, f) == [q \in DOMAIN fsys \cup {p} |-> IF q = p THEN f ELSE fsys[q]]
RemoveFile(fsys, p) == [q \in DOMAIN fsys \ {p} |-> fsys[q]]
\* `${fileStats.mtime}`: a Date as text, which has the resolution of a
\* second, where the clock counts milliseconds.
MtimeAt(t) == t \div 1000
\* copyFile(src, dst): the bytes of src under dst, modified now
CopyOf(f, t) == [f EXCEPT !.mtime = MtimeAt(t)]

InitFs ==
  [p \in UserPaths |->
     IF p = FileAX THEN DataFile(<<1>>, 0)
     ELSE IF p = FileBX THEN DataFile(<<2, 2>>, 0)
     ELSE DataFile(<<3>>, 0)]

\* ----------------------------------------------------------------- errors
\* error.message of a failed call; "" stands for a call that succeeded.
ENOENT == "ENOENT: no such file or directory"
EIO == "EIO: i/o error"
EPERM == "EPERM: operation not permitted"
NotFoundMsg == "File not found"
NoFilesMsg == "No files provided for deletion"
\* `Backup failed: ${backupResult.error}`
BackupFailedMsg(e) == IF e = ENOENT THEN "Backup failed: ENOENT" ELSE "Backup failed: EIO"

\* What an awaited call can do in a given file system, k I/O errors having
\* happened so far: succeed (""), or fail with an error.
IoError(k, e) == IF k < MaxFaults THEN {e} ELSE {}
IsFault(e) == e \in {EIO, EPERM}
MkdirResults(k) == {""} \cup IoError(k, EIO)
StatResults(fsys, p, k) == IF ExistsSync(fsys, p) THEN {""} \cup IoError(k, EIO) ELSE {ENOENT}
CopyResults(fsys, trashThere, src, dst, k) ==
  IF ExistsSync(fsys, src) /\ DirExists(trashThere, Dirname(dst))
  THEN {""} \cup IoError(k, EIO) ELSE {ENOENT}
WriteResults(k) == {""} \cup IoError(k, EIO)
UnlinkResults(fsys, p, k) ==
  IF ExistsSync(fsys, p) THEN {""} \cup IoError(k, EPERM) ELSE {ENOENT}
\* What a failed copy or write leaves at its destination: the file as it
\* was, or the destination opened and then removed (copy) or emptied (write).
FailedCopy(fsys, dst, e) == IF e = ENOENT THEN {fsys} ELSE {fsys, RemoveFile(fsys, dst)}
FailedWrite(fsys, dst, t) == {fsys, WriteFile(fsys, dst, TruncatedFile(t))}

\* ------------------------------------------------------------ delete-files
\* One entry of the handler's results array.
NotFoundOutcome(p) ==
  [path |-> p, deleted |-> FALSE, backupPath |-> NoPath, error |-> NotFoundMsg,
   backupFailed |-> FALSE]
BackupFailedOutcome(p, e) ==
  [path |-> p, deleted |-> FALSE, backupPath |-> NoPath, error |-> BackupFailedMsg(e),
   backupFailed |-> TRUE]
DeletedOutcome(p, bp) ==
  [path |-> p, deleted |-> TRUE, backupPath |-> bp, error |-> "", backupFailed |-> FALSE]
CaughtOutcomeNoError(p, e) ==
  [path |-> p, deleted |-> FALSE, backupPath |-> NoPath, error |-> "", backupFailed |-> FALSE]
CaughtOutcome(p, e) ==
  [path |-> p, deleted |-> FALSE, backupPath |-> NoPath, error |-> e, backupFailed |-> FALSE]

\* results.every(r => r.deleted)
OverallSuccessSome(results) == \E k \in 1..Len(results) : results[k].deleted
OverallSuccess(results) == \A k \in 1..Len(results) : results[k].deleted

\* The value backupFile returns.
BackupOk(bp) == [success |-> TRUE, backupPath |-> bp, error |-> ""]
BackupError(e) == [success |-> FALSE, backupPath |-> NoPath, error |-> e]
\* if (!backupResult.success) { ... continue; }
BackupSucceededAlways(r) == TRUE
BackupSucceeded(r) == r.success

\* The paths a caller may hand to delete-files: every list of at most
\* MaxPaths of the user's paths, the empty list included.
RECURSIVE ListsOf(_, _)
ListsOf(S, n) ==
  IF n = 0 THEN {<<>>}
  ELSE LET shorter == ListsOf(S, n - 1)
       IN  shorter \cup {Append(l, x) : l \in {m \in shorter : Len(m) = n - 1}, x \in S}
PathLists == ListsOf(UserPaths, MaxPaths)

NoSnapshot == [p \in {} |-> DataFile(<<>>, 0)]
IdleDelete ==
  [pc |-> "idle", paths |-> <<>>, i |-> 0, results |-> <<>>,
   backupPath |-> NoPath, size |-> 0, backup |-> BackupError(""),
   success |-> FALSE, error |-> "",
   \* history of the entry being processed
   copied |-> FALSE, sidecarWritten |-> FALSE, bytes |-> <<>>, before |-> NoSnapshot]

\* if (!fs.existsSync(filePath))
FileMissingNever(fsys, p) == FALSE
FileMissing(fsys, p) == ~ExistsSync(fsys, p)

\* The entries from index i on that do not exist each get a not-found
\* outcome, in one synchronous run of the loop (push; continue).
RECURSIVE SkipMissing(_, _, _, _)
SkipMissing(fsys, paths, i, results) ==
  IF i <= Len(paths) /\ FileMissing(fsys, paths[i])
  THEN SkipMissing(fsys, paths, i + 1, Append(results, NotFoundOutcome(paths[i])))
  ELSE [i |-> i, results |-> results]

\* The head of the loop: existsSync for the entries from d.i on, then
\* either the end of the list and the return, or the call of backupFile up
\* to its first awaited call: mkdir when the trash directory is missing,
\* else stat, the backup's name having been taken from the clock.
LoopHead(d, fsys, trashThere, t) ==
  LET s == SkipMissing(fsys, d.paths, d.i, d.results)
      e == [d EXCEPT !.i = s.i, !.results = s.results]
  IN  IF s.i > Len(d.paths)
      THEN [e EXCEPT !.pc = "done", !.success = OverallSuccess(s.results)]
      ELSE IF DirExists(trashThere, TrashDir)
      THEN [e EXCEPT !.pc = "stat", !.before = fsys,
                     !.backupPath = BackupPathOf(t, d.paths[s.i])]
      ELSE [e EXCEPT !.pc = "mkdir", !.before = fsys]

\* The end of one entry: its outcome is pushed, its history is dropped, and
\* the loop goes on in the file system as the awaited call left it.
NextEntry(d, outcome, fsys, trashThere, t) ==
  LoopHead([d EXCEPT !.i = @ + 1, !.results = Append(@, outcome),
                     !.backupPath = NoPath, !.size = 0, !.backup = BackupError(""),
                     !.copied = FALSE, !.sidecarWritten = FALSE, !.bytes = <<>>,
                     !.before = NoSnapshot],
           fsys, trashThere, t)

\* backupFile has returned r to the handler.
AfterBackup(d, r, fsys, trashThere, t) ==
  IF BackupSucceeded(r)
  THEN [d EXCEPT !.pc = "unlink", !.backup = r]
  ELSE NextEntry(d, BackupFailedOutcome(d.paths[d.i], r.error), fsys, trashThere, t)

\* ------------------------------------------------------------ listBackups
\* crypto.createHash('md5').update(`${backupPath}${fileStats.mtime}`): a
\* digest, taken to be one-to-one on the text it is computed from.
Md5(bp, mtime) == [path |-> bp, mtime |-> mtime]
NoId == Md5(NoPath, 0)

\* files.filter(file => !file.endsWith('.meta.json'))
BackupFiles(fsys) == {p \in DOMAIN fsys : Dirname(p) = TrashDir /\ ~EndsWithMeta(Basename(p))}
\* JSON.parse(metadataContent) throws on a sidecar that is not JSON; the
\* entry is then null and filtered out.
Parses(fsys, p) ==
  LET m == MetadataPathOf(p) IN ExistsSync(fsys, m) => fsys[m].json
BackupRecordOf(fsys, p) ==
  LET m == MetadataPathOf(p)
  IN  [id |-> Md5(p, fsys[p].mtime),
       originalPath |-> IF ExistsSync(fsys, m) /\ fsys[m].originalPath # NoPath
                        THEN fsys[m].originalPath ELSE UnknownPath,
       backupPath |-> p,
       size |-> SizeOf(fsys[p])]
\* getBackupsList, read at one instant of the file system
GetBackupsList(fsys) ==
  {BackupRecordOf(fsys, p) : p \in {q \in BackupFiles(fsys) : Parses(fsys, q)}}

\* ---------------------------------------------------------- restoreBackup
NotFoundBackupMsg == "Backup not found"
NoOriginalMsg == "Original path not found. Please specify a target path."
NoTargetDirMsg == "Target directory does not exist"
CancelledMsg == "Restoration cancelled by user"
\* `Error restoring backup: ${error.message}`
RestoreErrorMsg(e) ==
  IF e = ENOENT THEN "Error restoring backup: ENOENT" ELSE "Error restoring backup: EIO"

\* The invocations that can be in flight together, and the target paths a
\* caller may name (NoPath: none, the recorded original path is used).
Restorers == {"r1", "r2"}
\* A new invocation takes the first slot that is free.
Earlier(q, r) == q = "r1" /\ r = "r2"
RestoreTargets == {NoPath, FileAX, FileGone, FileTrashY}

IdleRestore ==
  [pc |-> "idle", backupPath |-> NoPath, path |-> NoPath, confirmed |-> FALSE,
   success |-> FALSE, error |-> ""]

\* A return of restoreBackup: the invocation's locals are gone.  The path
\* is the one the return value names: restoredTo, or the directory of the
\* error `Target directory does not exist: ${targetDir}`.
RestoreFail(e) == [IdleRestore EXCEPT !.pc = "done", !.error = e]
RestoreNoDir(p) == [IdleRestore EXCEPT !.pc = "done", !.error = NoTargetDirMsg, !.path = p]
RestoreOk(p) == [IdleRestore EXCEPT !.pc = "done", !.success = TRUE, !.path = p]

\* if (!fs.existsSync(targetDir))
TargetDirMissingNever(trashThere, p) == FALSE
TargetDirMissing(trashThere, p) == ~DirExists(trashThere, Dirname(p))

\* restoreBackup from backups.find to the call of the dialog or of copyFile.
RestoreDecide(fsys, trashThere, id, target, backups) ==
  LET found == {b \in backups : b.id = id}
  IN  IF found = {} THEN RestoreFail(NotFoundBackupMsg)
      ELSE LET backup == CHOOSE b \in found : TRUE
               restorationPath == IF target # NoPath THEN target
                                  ELSE backup.originalPath
           IN  IF target = NoPath /\ backup.originalPath = NoPath
               THEN RestoreFail(NoOriginalMsg)
               ELSE IF TargetDirMissing(trashThere, restorationPath)
               THEN RestoreNoDir(restorationPath)
               ELSE [IdleRestore EXCEPT !.backupPath = backup.backupPath,
                                        !.path = restorationPath,
                                        !.pc = IF ExistsSync(fsys, restorationPath)
                                               THEN "dialog" ELSE "copy"]

\* ------------------------------------------------------------- classifier
\* analyzeFiles.  Times are counted in hours; a day is 1000*60*60*24 ms.
HoursPerDay == 24
\* config.scanAgeThreshold || 180 and config.scanSizeThreshold || 100 MB
DefaultAgeThreshold == 180
DefaultSizeThresholdMB == 100
BytesPerMB == 1024 * 1024

\* The value of file.accessed: a Date (stats.atime), null, undefined
\* (absent), or text that is no date.
DateAt(t) == [kind |-> "date", t |-> t]
NullDate == [kind |-> "null", t |-> 0]
AbsentDate == [kind |-> "absent", t |-> 0]
MalformedDate == [kind |-> "malformed", t |-> 0]
\* new Date(file.accessed): a time, or Invalid Date (whose value is NaN);
\* new Date(null) is the epoch.
NewDate(a) ==
  IF a.kind = "date" THEN [valid |-> TRUE, t |-> a.t]
  ELSE IF a.kind = "null" THEN [valid |-> TRUE, t |-> 0]
  ELSE [valid |-> FALSE, t |-> 0]
\* Math.floor((now - lastAccessed) / (1000 * 60 * 60 * 24)): a number or NaN
DaysSinceAccessed(now, a) ==
  LET d == NewDate(a)
  IN  IF d.valid THEN [nan |-> FALSE, n |-> (now - d.t) \div HoursPerDay]
      ELSE [nan |-> TRUE, n |-> 0]
\* x > y where x may be NaN: every comparison with NaN is false
NumGreaterOrEqual(x, y) == ~x.nan /\ x.n >= y
NumGreater(x, y) == ~x.nan /\ x.n > y

\* File names and what the code reads from them.
DotNames == {".hidden", ".git"}
DeniedNames == {".git", "node_modules"}
CopyNames == {"report (1).txt", "f_1"}
\* entry.name.startsWith('.')
StartsWithDot(n) == n \in DotNames
\* path.extname(entry.name).toLowerCase()
ExtName(n) ==
  IF n = "old.log" THEN ".log"
  ELSE IF n = "SETUP.EXE" THEN ".exe"
  ELSE IF n = "report (1).txt" THEN ".txt"
  ELSE IF n = ".git" THEN ""
  ELSE ""
\* file.name.match(/copy|копия|\(\d+\)|_\d+/i)
MatchesCopyPattern(n) == n \in CopyNames
TempExtensions == {".tmp", ".temp", ".bak", ".cache", ".log"}
DownloadExtensions == {".dmg", ".exe", ".pkg", ".iso", ".zip", ".tar", ".gz", ".rar"}

\* An options object: a record that has the fields the caller supplied.
NoOptions == [f \in {} |-> 0]
Supplied(o, f) == f \in DOMAIN o
\* o.f || dflt, for a number
OrDefault(o, f, dflt) == IF Supplied(o, f) /\ o[f] # 0 THEN o[f] ELSE dflt

\* The categories of one file, in the order they are pushed.
Categories(file, config, now) ==
  LET old == OrDefault(config, "scanAgeThreshold", DefaultAgeThreshold)
      large == OrDefault(config, "scanSizeThreshold", DefaultSizeThresholdMB * BytesPerMB)
      days == DaysSinceAccessed(now, file.accessed)
  IN  (IF file.size > large /\ NumGreater(days, old) THEN <<"largeUnused">> ELSE <<>>)
      \o (IF file.extension \in TempExtensions THEN <<"temporary">> ELSE <<>>)
      \o (IF file.extension \in DownloadExtensions THEN <<"installer">> ELSE <<>>)
      \o (IF MatchesCopyPattern(file.name) THEN <<"potentialDuplicate">> ELSE <<>>)
\* One element of analyzeFiles' result.
AnalyzeFile(file, config, now) ==
  LET c == Categories(file, config, now)
  IN  [file |-> file, categories |-> c, isUnneeded |-> Len(c) > 0]
AnalyzeFiles(files, config, now) ==
  [k \in 1..Len(files) |-> AnalyzeFile(files[k], config, now)]

\* --------------------------------------------------------- directory trees
\* A path below the scan root is the sequence of its names; the root is <<>>.
\* A tree gives, for every real directory, whether it can be read and its
\* entries in readdir's order.  An entry is a file, a directory, a symbolic
\* link to a directory (target: the real directory) or a dangling link.
FileEntry(n, size, atime) ==
  [name |-> n, kind |-> "file", size |-> size, accessed |-> atime, target |-> <<>>]
DirEntry(n) ==
  [name |-> n, kind |-> "dir", size |-> 0, accessed |-> AbsentDate, target |-> <<>>]
LinkEntry(n, target) ==
  [name |-> n, kind |-> "link", size |-> 0, accessed |-> AbsentDate, target |-> target]
DanglingEntry(n) ==
  [name |-> n, kind |-> "dangling", size |-> 0, accessed |-> AbsentDate, target |-> <<>>]
Directory(readable, entries) == [readable |-> readable, entries |-> entries]

\* const MAX_BATCH_SIZE = 500
MAX_BATCH_SIZE == 500

\* The moment of the scans, and access times before it.
ScanNow == 400 * HoursPerDay
LongAgo == DateAt(0)
Lately == DateAt(ScanNow - 1)
SmallFile(n) == FileEntry(n, 1, Lately)

\* Files only: plain, hidden, a log, a large stale file, a dangling link.
TreeFlat ==
  <<>> :> Directory(TRUE, <<SmallFile("f1"), SmallFile(".hidden"),
                            FileEntry("old.log", 2, LongAgo),
                            FileEntry("big", 200 * BytesPerMB, LongAgo),
                            DanglingEntry("broken")>>)
\* One directory per level, a file at each level.
TreeChain ==
  (<<>> :> Directory(TRUE, <<SmallFile("f1"), DirEntry("d1")>>))
  @@ (<<"d1">> :> Directory(TRUE, <<SmallFile("f2"), DirEntry("d2")>>))
  @@ (<<"d1", "d2">> :> Directory(TRUE, <<SmallFile("f3"), DirEntry("d3")>>))
  @@ (<<"d1", "d2", "d3">> :> Directory(TRUE, <<SmallFile("f4")>>))
\* Two directories at the first level, one below the first of them.
TreeWide ==
  (<<>> :> Directory(TRUE, <<DirEntry("p"), DirEntry("q")>>))
  @@ (<<"p">> :> Directory(TRUE, <<DirEntry("pp"), SmallFile("f1")>>))
  @@ (<<"q">> :> Directory(TRUE, <<SmallFile("f2")>>))
  @@ (<<"p", "pp">> :> Directory(TRUE, <<SmallFile("f3")>>))
\* A link in the root that resolves to the root.
TreeCycle ==
  <<>> :> Directory(TRUE, <<SmallFile("f1"), SmallFile("f2"), SmallFile("f3"),
                            SmallFile("f4"), SmallFile("f5"), LinkEntry("loop", <<>>)>>)
\* A link in a directory that resolves to its parent.
TreeCycleUp ==
  (<<>> :> Directory(TRUE, <<DirEntry("a")>>))
  @@ (<<"a">> :> Directory(TRUE, <<SmallFile("f1"), LinkEntry("up", <<>>)>>))
\* A directory that cannot be read and one on the deny-list.
TreeLocked ==
  (<<>> :> Directory(TRUE, <<SmallFile("f1"), DirEntry("locked"), DirEntry("node_modules")>>))
  @@ (<<"locked">> :> Directory(FALSE, <<SmallFile("f2")>>))
  @@ (<<"node_modules">> :> Directory(TRUE, <<SmallFile("f3")>>))
\* A root with nothing in it, a root that cannot be read, no root at all.
TreeEmpty == <<>> :> Directory(TRUE, <<>>)
TreeRootLocked == <<>> :> Directory(FALSE, <<SmallFile("f1")>>)
TreeGone == [p \in {} |-> Directory(FALSE, <<>>)]
\* A directory of as many files as a batch holds, after a subdirectory.
TreeBig ==
  (<<>> :> Directory(TRUE, <<DirEntry("sub")>>
                           \o [k \in 1..MAX_BATCH_SIZE |-> SmallFile(ToString(k))]))
  @@ (<<"sub">> :> Directory(TRUE, <<SmallFile("f1")>>))
\* As many files as a batch holds, after a subdirectory that is empty.
TreeBigBare ==
  (<<>> :> Directory(TRUE, <<DirEntry("sub")>>
                           \o [k \in 1..MAX_BATCH_SIZE |-> SmallFile(ToString(k))]))
  @@ (<<"sub">> :> Directory(TRUE, <<>>))
\* A directory of one file more than a batch holds, and no subdirectory.
TreeHeap ==
  <<>> :> Directory(TRUE, [k \in 1..(MAX_BATCH_SIZE + 1) |-> SmallFile(ToString(k))])
\* Large files of several ages, and files at the default size threshold.
DaysAgo(n) == DateAt(ScanNow - n * HoursPerDay)
TreeAges ==
  <<>> :> Directory(TRUE, <<FileEntry("stale", 200 * BytesPerMB, LongAgo),
                            FileEntry("day180", 200 * BytesPerMB, DaysAgo(DefaultAgeThreshold)),
                            FileEntry("day181", 200 * BytesPerMB, DaysAgo(DefaultAgeThreshold + 1)),
                            FileEntry("fresh", 200 * BytesPerMB, Lately),
                            FileEntry("at100", DefaultSizeThresholdMB * BytesPerMB, LongAgo),
                            FileEntry("huge", 300 * BytesPerMB, LongAgo)>>)
Trees == {TreeFlat, TreeChain, TreeWide, TreeCycle, TreeCycleUp, TreeLocked,
          TreeEmpty, TreeRootLocked, TreeGone, TreeBig, TreeAges}
\* The trees whose directories fill a batch.
BatchTrees == {TreeBig, TreeBigBare, TreeHeap}

\* The real directory a path leads to, links followed; NoDir when it leads
\* to none.
NoDir == <<"?">>
EntryNamed(t, d, n) ==
  IF d \in DOMAIN t
  THEN {t[d].entries[k] : k \in {j \in 1..Len(t[d].entries) : t[d].entries[j].name = n}}
  ELSE {}
\* A path below the scan root: the names on the way down.
Paths == Seq(STRING)
Resolve(t, p) ==
  LET \* from directory a[1], the names of p numbered a[2] and above
      resolveFrom[a \in Paths \X (1..(Len(p) + 1))] ==
        LET d == a[1]
            k == a[2]
            es == IF k <= Len(p) THEN EntryNamed(t, d, p[k]) ELSE {}
            e == CHOOSE x \in es : TRUE
        IN  IF k > Len(p) THEN d
            ELSE IF es = {} THEN NoDir
            ELSE IF e.kind = "dir" THEN resolveFrom[<<Append(d, e.name), k + 1>>]
            ELSE IF e.kind = "link" THEN resolveFrom[<<e.target, k + 1>>]
            ELSE NoDir
  IN  resolveFrom[<<(<<>>), 1>>]

\* readdir(path): the entries, or an error (ok = FALSE)
Readdir(t, p) ==
  LET d == Resolve(t, p)
  IN  IF d \in DOMAIN t /\ t[d].readable
      THEN [ok |-> TRUE, entries |-> t[d].entries]
      ELSE [ok |-> FALSE, entries |-> <<>>]
\* entryPath.includes('node_modules') || entryPath.includes('.git') || ...
PathDenied(p) == \E k \in 1..Len(p) : p[k] \in DeniedNames
\* Dirent.isDirectory(), which does not follow links
DirentIsDirectory(e) == e.kind = "dir"
\* stat(entryPath), which follows links: fails for a dangling link
StatFails(e) == e.kind = "dangling"
StatsIsDirectory(e) == e.kind \in {"dir", "link"}

\* ------------------------------------------------------------- countFiles
\* return 10 for a directory below the depth cap
CountEstimate == 10
\* countFiles(dirPath, maxDepth, currentDepth): the estimate below the depth
\* cap; else for every entry of the directory: nothing for one on the
\* deny-list, countFiles of it for a directory, 1 for any other; 0 when the
\* directory cannot be read.
CountFiles(t, p, maxDepth, currentDepth) ==
  LET countFiles[a \in Paths \X (0..(maxDepth + 1))] ==
        LET dirPath == a[1]
            depth == a[2]
            r == Readdir(t, dirPath)
            counted == {k \in 1..Len(r.entries) :
                          ~PathDenied(Append(dirPath, r.entries[k].name))}
            dirs == {k \in counted : DirentIsDirectory(r.entries[k])}
            \* the sum over the directories numbered k and above
            below[k \in 1..(Len(r.entries) + 1)] ==
              IF \A j \in dirs : j < k THEN 0
              ELSE LET j == CHOOSE x \in dirs :
                              x >= k /\ \A y \in dirs : y >= k => x <= y
                   IN  countFiles[<<Append(dirPath, r.entries[j].name), depth + 1>>]
                       + below[j + 1]
        IN  IF depth > maxDepth THEN CountEstimate
            ELSE IF r.ok THEN Cardinality(counted \ dirs) + below[1]
            ELSE 0
  IN  countFiles[<<p, currentDepth>>]

\* ---------------------------------------------------------- scan-directory
DefaultMaxDepth == 10
DefaultIgnoreSizeAboveMB == 1024
\* if (progressReporter.processedFiles % 10 === 0)
ReportEvery == 10

\* The handler's config, from the scanConfig the caller passed.
ScanConfigOf(sc) ==
  [maxDepth |-> OrDefault(sc, "maxDepth", DefaultMaxDepth),
   ignoreDotFiles |-> IF Supplied(sc, "ignoreDotFiles") THEN sc.ignoreDotFiles ELSE TRUE,
   ignoreSizeAbove |-> OrDefault(sc, "ignoreSizeAbove", DefaultIgnoreSizeAboveMB) * BytesPerMB,
   includeHiddenFiles |-> Supplied(sc, "includeHiddenFiles") /\ sc.includeHiddenFiles,
   scanSizeThreshold |-> OrDefault(sc, "scanSizeThreshold", DefaultSizeThresholdMB) * BytesPerMB,
   scanAgeThreshold |-> OrDefault(sc, "scanAgeThreshold", DefaultAgeThreshold)]

\* Math.round(x) for x >= 0, x = num / den
Round(num, den) == (2 * num + den) \div (2 * den)
\* totalFiles > 0 ? Math.round((processedFiles / totalFiles) * 100) : 0
ScanPercentage(processed, total) == IF total > 0 THEN Round(processed * 100, total) ELSE 0
ProgressEvent(processed, total, percentage) ==
  [processed |-> processed, total |-> total, percentage |-> percentage]

IdleScan ==
  [pc |-> "idle", supplied |-> NoOptions, config |-> ScanConfigOf(NoOptions),
   \* scanDirectory's locals
   pending |-> <<>>, visited |-> {}, currentDepth |-> 0, currentDir |-> <<>>,
   entries |-> <<>>, idx |-> 0, fileStats |-> <<>>, batchCount |-> 0,
   \* progressReporter
   totalFiles |-> 0, processedFiles |-> 0,
   \* what was sent to the window: scan-progress and scan-batch events
   reports |-> <<>>, batches |-> <<>>,
   \* history: every fileData pushed, and the directories read
   emitted |-> <<>>, dirsRead |-> 0,
   \* the value returned
   success |-> FALSE, error |-> "", data |-> <<>>]

\* progressReporter.report(); mainWindow is set before any handler can be
\* invoked and is never cleared.
ScanReport(s) ==
  [s EXCEPT !.reports =
     Append(@, ProgressEvent(s.processedFiles, s.totalFiles,
                             ScanPercentage(s.processedFiles, s.totalFiles)))]

\* scanDirectory has returned fileStats: the final report, the analysis, the
\* last batch, the return value.
ScanReturnAlwaysLast(s, now) ==
  LET r == ScanReport([s EXCEPT !.processedFiles = s.totalFiles])
      analyzed == AnalyzeFiles(s.fileStats, s.config, now)
  IN  [r EXCEPT !.pc = "done", !.success = TRUE, !.data = analyzed,
                !.batches = Append(@, [files |-> analyzed, isDone |-> TRUE])]
ScanReturn(s, now) ==
  LET r == ScanReport([s EXCEPT !.processedFiles = s.totalFiles])
      analyzed == AnalyzeFiles(s.fileStats, s.config, now)
  IN  [r EXCEPT !.pc = "done", !.success = TRUE, !.data = analyzed,
                !.batches = IF Len(s.fileStats) > 0
                            THEN Append(@, [files |-> analyzed, isDone |-> TRUE])
                            ELSE @]

\* while (pendingDirectories.length > 0 && currentDepth <= config.maxDepth):
\* shift; a visited directory is skipped (continue); else readdir is called.
ScanLoopExitOnEmptyOnly(s) == s.pending = <<>>
ScanLoopExit(s) == ~(Len(s.pending) > 0 /\ s.currentDepth <= s.config.maxDepth)
RECURSIVE ScanLoopHead(_, _)
ScanLoopHead(s, now) ==
  IF ScanLoopExit(s) THEN ScanReturn(s, now)
  ELSE LET d == Head(s.pending)
           s1 == [s EXCEPT !.pending = Tail(@)]
       IN  IF d \in s.visited THEN ScanLoopHead(s1, now)
           ELSE [s1 EXCEPT !.visited = @ \cup {d}, !.currentDir = d, !.pc = "readdir"]

\* for (const entry of entries): dot files are skipped; stat is called for
\* the first entry that is not; after the last entry currentDepth++.
RECURSIVE ScanEntryLoop(_, _)
ScanEntryLoop(s, now) ==
  IF s.idx > Len(s.entries)
  THEN ScanLoopHead([s EXCEPT !.currentDepth = @ + 1, !.entries = <<>>, !.idx = 0], now)
  ELSE IF s.config.ignoreDotFiles /\ StartsWithDot(s.entries[s.idx].name)
          /\ ~s.config.includeHiddenFiles
  THEN ScanEntryLoop([s EXCEPT !.idx = @ + 1], now)
  ELSE [s EXCEPT !.pc = "stat"]

\* fileData of an entry that is a file
FileData(dir, e) ==
  [path |-> Append(dir, e.name), name |-> e.name, size |-> e.size,
   accessed |-> e.accessed, extension |-> ExtName(e.name)]

\* stat(entryPath) has settled for entry idx: the rest of the loop body.
ScanAfterStat(s, now) ==
  LET e == s.entries[s.idx]
      entryPath == Append(s.currentDir, e.name)
      next == [s EXCEPT !.idx = @ + 1]
  IN  IF StatFails(e) THEN ScanEntryLoop(next, now)
      ELSE IF StatsIsDirectory(e)
      THEN ScanEntryLoop(IF PathDenied(entryPath) THEN next
                         ELSE [next EXCEPT !.pending = Append(@, entryPath)], now)
      ELSE IF s.config.ignoreSizeAbove > 0 /\ e.size > s.config.ignoreSizeAbove
      THEN ScanEntryLoop(next, now)
      ELSE LET pushed == [next EXCEPT !.fileStats = Append(@, FileData(s.currentDir, e)),
                                      !.emitted = Append(@, FileData(s.currentDir, e)),
                                      !.processedFiles = @ + 1,
                                      !.batchCount = @ + 1]
               reported == IF pushed.processedFiles % ReportEvery = 0
                           THEN ScanReport(pushed) ELSE pushed
           IN  IF reported.batchCount >= MAX_BATCH_SIZE /\ Len(reported.pending) > 0
               THEN [reported EXCEPT
                       !.batches = Append(@, [files |-> AnalyzeFiles(reported.fileStats,
                                                                     s.config, now),
                                              isDone |-> FALSE]),
                       !.fileStats = <<>>, !.batchCount = 0, !.pc = "yield"]
               ELSE ScanEntryLoop(reported, now)

\* --------------------------------------------------------- find-duplicates
\* The paths a caller may name and what is at each of them: a file with its
\* bytes (readable or not), a directory, or nothing.
DupFile(bytes, readable) == [kind |-> "file", bytes |-> bytes, readable |-> readable]
DupDir == [kind |-> "dir", bytes |-> <<>>, readable |-> TRUE]
DupPaths == {"s1", "s2", "t1", "u1", "u2", "m1", "m2",
             "long1", "long2", "long3", "dir", "gone"}
DupFs ==
  [p \in DupPaths \ {"gone"} |->
     IF p = "s1" THEN DupFile(<<7>>, TRUE)
     ELSE IF p = "s2" THEN DupFile(<<7>>, TRUE)
     ELSE IF p = "t1" THEN DupFile(<<8>>, TRUE)
     ELSE IF p = "u1" THEN DupFile(<<9>>, FALSE)
     ELSE IF p = "u2" THEN DupFile(<<9, 9>>, FALSE)
     ELSE IF p = "m1" THEN DupFile(<<3, 4>>, TRUE)
     ELSE IF p = "m2" THEN DupFile(<<3, 4>>, TRUE)
     ELSE IF p = "long1" THEN DupFile(<<1, 2, 3, 4, 5>>, TRUE)
     ELSE IF p = "long2" THEN DupFile(<<1, 6, 3, 6, 5>>, TRUE)
     ELSE IF p = "long3" THEN DupFile(<<1, 9, 3, 5>>, TRUE)
     ELSE DupDir]

\* for (let i = 0; i < filePaths.length; i += BATCH_SIZE)
BATCH_SIZE == 20
\* options.sampleSize || 4096
DefaultSampleSize == 4096

\* crypto.createHash(algorithm).update(...).digest('hex'): one-to-one on
\* the bytes it is fed; null when the file could not be read.
Digest(bytes) == [kind |-> "digest", bytes |-> bytes]
NullHash == [kind |-> "null", bytes |-> <<>>]
\* calculateFileHash(filePath, algorithm, sampleSize): for a file of more
\* than 3 * sampleSize bytes the three windows (start, middle, end), else
\* the whole content; sampleSize 0 stands for null.
Window(bytes, pos, n) == SubSeq(bytes, pos + 1, pos + n)
CalculateFileHash(f, sampleSize) ==
  IF ~f.readable THEN NullHash
  ELSE IF sampleSize # 0 /\ Len(f.bytes) > sampleSize * 3
  THEN LET fileSize == Len(f.bytes)
           middlePosition == (fileSize \div 2) - (sampleSize \div 2)
           endPosition == fileSize - sampleSize
       IN  Digest(Window(f.bytes, 0, sampleSize)
                  \o Window(f.bytes, middlePosition, sampleSize)
                  \o Window(f.bytes, endPosition, sampleSize))
  ELSE Digest(f.bytes)

\* A Map in insertion order: a sequence of [key, files].
MapHas(m, k) == \E j \in 1..Len(m) : m[j].key = k
MapPushNew(m, k, item) == Append(m, [key |-> k, files |-> <<item>>])
MapPush(m, k, item) ==
  IF MapHas(m, k)
  THEN [j \in 1..Len(m) |-> IF m[j].key = k
                            THEN [m[j] EXCEPT !.files = Append(@, item)] ELSE m[j]]
  ELSE Append(m, [key |-> k, files |-> <<item>>])

\* Math.round((processed / total) * 100), total > 0
DupPercentage(processed, total) == Round(processed * 100, total)

IdleDup ==
  [pc |-> "idle", paths |-> <<>>, options |-> NoOptions, i |-> 0,
   \* one task per path of the batch: "stat", "hash" or "done"
   tasks |-> <<>>,
   fileHashes |-> <<>>, potentialDuplicates |-> <<>>,
   processed |-> 0, total |-> 0,
   \* the duplicate-progress events sent
   reports |-> <<>>,
   \* the value returned
   success |-> FALSE, error |-> "",
   duplicateGroups |-> <<>>, totalDuplicates |-> 0, potentialSavings |-> 0]

NoDirectoryMsg == "Directory does not exist"
NoGetAllFilesMsg == "getAllFiles is not defined"

\* options.compareSize !== false, options.exactMatch !== false
CompareSize(o) == ~(Supplied(o, "compareSize") /\ o.compareSize = FALSE)
ExactMatch(o) == ~(Supplied(o, "exactMatch") /\ o.exactMatch = FALSE)
\* options.minSize && stats.size < options.minSize, and maxSize likewise
TooSmall(o, size) == Supplied(o, "minSize") /\ o.minSize # 0 /\ size < o.minSize
TooLarge(o, size) == Supplied(o, "maxSize") /\ o.maxSize # 0 /\ size > o.maxSize

\* if (processed % 10 === 0 || processed === total) send duplicate-progress
DupReport(d) ==
  IF d.processed % ReportEvery = 0 \/ d.processed = d.total
  THEN [d EXCEPT !.reports = Append(@, ProgressEvent(d.processed, d.total,
                                                     DupPercentage(d.processed, d.total)))]
  ELSE d

\* The entry of a file in either map
HashedFile(p, hash, size) == [path |-> p, hash |-> hash, size |-> size]

\* The second stage: the buckets of more than one file, regrouped by hash.
RECURSIVE RegroupFiles(_, _, _)
RegroupFiles(pd, files, k) ==
  IF k > Len(files) THEN pd
  ELSE RegroupFiles(MapPush(pd, files[k].hash, files[k]), files, k + 1)
RECURSIVE RegroupBuckets(_, _, _)
RegroupBuckets(pd, fh, k) ==
  IF k > Len(fh) THEN pd
  ELSE RegroupBuckets(IF Len(fh[k].files) <= 1 THEN pd
                      ELSE RegroupFiles(pd, fh[k].files, 1), fh, k + 1)

\* duplicateGroups: the entries of potentialDuplicates with more than one
\* file, then sorted by size * files.length, largest first (a stable sort).
Group(e) == [hash |-> e.key, size |-> e.files[1].size, files |-> e.files]
GroupWeight(g) == g.size * Len(g.files)
RECURSIVE InsertGroup(_, _)
InsertGroup(sorted, g) ==
  IF sorted = <<>> THEN <<g>>
  ELSE IF GroupWeight(sorted[Len(sorted)]) >= GroupWeight(g) THEN Append(sorted, g)
  ELSE Append(InsertGroup(SubSeq(sorted, 1, Len(sorted) - 1), g), sorted[Len(sorted)])
RECURSIVE SortGroups(_, _, _)
SortGroups(sorted, gs, k) ==
  IF k > Len(gs) THEN sorted ELSE SortGroups(InsertGroup(sorted, gs[k]), gs, k + 1)
RECURSIVE SumOver(_, _, _)
SumOverMembers(gs, k, byBytes) ==
  IF k > Len(gs) THEN 0
  ELSE (IF byBytes THEN gs[k].size ELSE 1) * Len(gs[k].files)
       + SumOver(gs, k + 1, byBytes)
SumOver(gs, k, byBytes) ==
  IF k > Len(gs) THEN 0
  ELSE (IF byBytes THEN gs[k].size ELSE 1) * (Len(gs[k].files) - 1)
       + SumOver(gs, k + 1, byBytes)

\* After the last batch: the grouping and the return value.
DupReturn(d) ==
  LET pd == IF CompareSize(d.options)
            THEN RegroupBuckets(d.potentialDuplicates, d.fileHashes, 1)
            ELSE d.potentialDuplicates
      gs == SelectSeq([j \in 1..Len(pd) |-> Group(pd[j])], LAMBDA g : Len(g.files) > 1)
  IN  [d EXCEPT !.pc = "done", !.success = TRUE, !.potentialDuplicates = pd,
                !.duplicateGroups = SortGroups(<<>>, gs, 1),
                !.totalDuplicates = SumOver(gs, 1, FALSE),
                !.potentialSavings = SumOver(gs, 1, TRUE)]

\* The head of the batch loop: the next batch's tasks are started (each runs
\* to its stat), or the loop is over.
DupBatch(d) ==
  IF d.i < Len(d.paths)
  THEN LET n == IF Len(d.paths) - d.i < BATCH_SIZE THEN Len(d.paths) - d.i ELSE BATCH_SIZE
       IN  [d EXCEPT !.pc = "batch", !.tasks = [k \in 1..n |-> "stat"]]
  ELSE DupReturn(d)

\* What callers pass: scan configurations, path lists and options.
ScanConfigs ==
  {NoOptions} \cup {[maxDepth |-> d] : d \in 0..MaxDepthArg}
  \cup {[maxDepth |-> 1, includeHiddenFiles |-> TRUE]}
  \cup {[scanSizeThreshold |-> 100, scanAgeThreshold |-> 180],
        [scanSizeThreshold |-> 250, scanAgeThreshold |-> 30]}
\* Every list of up to MaxDupPaths paths, and longer lists with one group and
\* a file outside it, with two groups, and with files of sampled hashes.
DupPathLists ==
  ListsOf(DupPaths, MaxDupPaths)
  \cup {<<"s1", "t1", "s2">>, <<"s1", "m1", "s2", "m2">>, <<"long1", "long3", "long2">>}
DupOptions ==
  {NoOptions, [minSize |-> 2], [scanDirectory |-> TRUE],
   [exactMatch |-> FALSE, sampleSize |-> 1], [compareSize |-> FALSE],
   [exactMatch |-> FALSE, sampleSize |-> 1, compareSize |-> FALSE]}

\* The records and thresholds handed to analyzeFiles directly.
ClsFile(n, size, accessed) ==
  [path |-> <<n>>, name |-> n, size |-> size, accessed |-> accessed,
   extension |-> ExtName(n)]
ClsNames == {"f1", "old.log", "report (1).txt"}
ClsSizes == {1, DefaultSizeThresholdMB * BytesPerMB, 200 * BytesPerMB}
ClsDates == {DateAt(0), DateAt(HoursPerDay), NullDate, AbsentDate, MalformedDate}
ClsFiles == {ClsFile(n, size, a) : n \in ClsNames, size \in ClsSizes, a \in ClsDates}
ClsConfigs ==
  {NoOptions, [scanAgeThreshold |-> 1],
   [scanAgeThreshold |-> 1, scanSizeThreshold |-> 1]}
\* The clock readings a behaviour may start at, and the step of the clock.
ClsEpochs == {0, DefaultAgeThreshold * HoursPerDay}
TickHours == HoursPerDay \div 2
IdleCls == [file |-> ClsFile("f1", 1, AbsentDate), config |-> NoOptions, ticks |-> 0,
            calls |-> <<>>]

\* ------------------------------------------------------------------- state
VARIABLES
  fs,           \* the files that exist: path -> file
  trashExists,  \* whether the trash directory exists
  clock,        \* the reading new Date() gives now
  del,          \* the delete-files invocation in flight
  res,          \* the restore-backup invocations in flight
  calls,        \* invocations of the two handlers so far
  faults,       \* awaited calls that failed with an I/O error so far
  ledger,       \* history: every backup a delete-files outcome rests on
  tree,         \* the directory tree the scans walk
  now,          \* the reading new Date() gives the classifier, in hours
  scan,         \* the scan-directory invocation in flight
  dup,          \* the find-duplicates invocation in flight
  log,          \* history: the scans and duplicate searches that returned
  cls,          \* the classifier's calls on one record
  ui,           \* the window: its scan state and its listeners
  pair          \* two find-duplicates invocations in flight at once

backupVars == <<fs, trashExists, clock, del, res, calls, faults, ledger>>
engineVars == <<tree, now, scan, dup, log, cls>>
uiVars == <<ui>>
pairVars == <<pair>>
vars == <<fs, trashExists, clock, del, res, calls, faults, ledger,
          tree, now, scan, dup, log, cls, ui, pair>>

\* A ledger entry: the path, where its backup went, the bytes copied there,
\* and whether the original was then removed (deleted = true).
LedgerEntry(d, removed) ==
  [path |-> d.paths[d.i], backupPath |-> d.backup.backupPath, bytes |-> d.bytes,
   deleted |-> removed]

\* ipcMain.handle('delete-files'): the argument check, then the loop.
DeleteStart(paths) ==
  /\ del.pc \in {"idle", "done"}
  /\ calls < MaxCalls
  /\ calls' = calls + 1
  /\ del' = IF Len(paths) = 0
            THEN [IdleDelete EXCEPT !.pc = "done", !.error = NoFilesMsg]
            ELSE LoopHead([IdleDelete EXCEPT !.paths = paths, !.i = 1],
                          fs, trashExists, clock)
  /\ UNCHANGED <<fs, trashExists, clock, res, faults, ledger>>
  /\ UNCHANGED engineVars
  /\ UNCHANGED uiVars
  /\ UNCHANGED pairVars

\* getTrashDirectory: await mkdir(trashPath, { recursive: true }); back in
\* backupFile the backup's name is taken from the clock and stat is called.
DeleteMkdir ==
  /\ del.pc = "mkdir"
  /\ \E e \in MkdirResults(faults) :
       /\ faults' = faults + (IF IsFault(e) THEN 1 ELSE 0)
       /\ IF e = ""
          THEN /\ trashExists' = TRUE
               /\ del' = [del EXCEPT !.pc = "stat",
                                     !.backupPath = BackupPathOf(clock, del.paths[del.i])]
          ELSE /\ trashExists' = trashExists
               /\ del' = AfterBackup(del, BackupError(e), fs, trashExists, clock)
  /\ UNCHANGED <<fs, clock, res, calls, ledger>>
  /\ UNCHANGED engineVars
  /\ UNCHANGED uiVars
  /\ UNCHANGED pairVars

\* backupFile: await stat(filePath); the metadata; copyFile is called.
DeleteStat ==
  /\ del.pc = "stat"
  /\ \E e \in StatResults(fs, del.paths[del.i], faults) :
       /\ faults' = faults + (IF IsFault(e) THEN 1 ELSE 0)
       /\ del' = IF e = ""
                 THEN [del EXCEPT !.pc = "copy", !.size = SizeOf(fs[del.paths[del.i]])]
                 ELSE AfterBackup(del, BackupError(e), fs, trashExists, clock)
  /\ UNCHANGED <<fs, trashExists, clock, res, calls, ledger>>
  /\ UNCHANGED engineVars
  /\ UNCHANGED uiVars
  /\ UNCHANGED pairVars

\* backupFile: await copyFile(filePath, backupPath); writeFile is called.
DeleteCopy ==
  /\ del.pc = "copy"
  /\ LET src == del.paths[del.i]
         dst == del.backupPath
     IN  \E e \in CopyResults(fs, trashExists, src, dst, faults) :
           /\ faults' = faults + (IF IsFault(e) THEN 1 ELSE 0)
           /\ IF e = ""
              THEN /\ fs' = WriteFile(fs, dst, CopyOf(fs[src], clock))
                   /\ del' = [del EXCEPT !.pc = "write", !.copied = TRUE,
                                         !.bytes = fs[src].bytes]
              ELSE /\ fs' \in FailedCopy(fs, dst, e)
                   /\ del' = AfterBackup(del, BackupError(e), fs', trashExists, clock)
  /\ UNCHANGED <<trashExists, clock, res, calls, ledger>>
  /\ UNCHANGED engineVars
  /\ UNCHANGED uiVars
  /\ UNCHANGED pairVars

\* backupFile: await writeFile(metadataPath, ...); it returns; on success
\* the handler calls unlink.
DeleteWrite ==
  /\ del.pc = "write"
  /\ LET dst == MetadataPathOf(del.backupPath)
     IN  \E e \in WriteResults(faults) :
           /\ faults' = faults + (IF IsFault(e) THEN 1 ELSE 0)
           /\ IF e = ""
              THEN /\ fs' = WriteFile(fs, dst,
                                      SidecarFile(del.paths[del.i], del.size, MtimeAt(clock)))
                   /\ del' = AfterBackup([del EXCEPT !.sidecarWritten = TRUE],
                                         BackupOk(del.backupPath), fs', trashExists, clock)
              ELSE /\ fs' \in FailedWrite(fs, dst, MtimeAt(clock))
                   /\ del' = AfterBackup(del, BackupError(e), fs', trashExists, clock)
  /\ UNCHANGED <<trashExists, clock, res, calls, ledger>>
  /\ UNCHANGED engineVars
  /\ UNCHANGED uiVars
  /\ UNCHANGED pairVars

\* await unlink(filePath), then results.push of the outcome (or the catch),
\* and the loop goes on.
DeleteUnlink ==
  /\ del.pc = "unlink"
  /\ LET p == del.paths[del.i]
     IN  \E e \in UnlinkResults(fs, p, faults) :
           /\ faults' = faults + (IF IsFault(e) THEN 1 ELSE 0)
           /\ IF e = ""
              THEN /\ fs' = RemoveFile(fs, p)
                   /\ del' = NextEntry(del, DeletedOutcome(p, del.backup.backupPath),
                                       fs', trashExists, clock)
                   /\ ledger' = ledger \cup {LedgerEntry(del, TRUE)}
              ELSE /\ fs' = fs
                   /\ del' = NextEntry(del, CaughtOutcome(p, e), fs', trashExists, clock)
                   /\ ledger' = ledger \cup {LedgerEntry(del, FALSE)}
  /\ UNCHANGED <<trashExists, clock, res, calls>>
  /\ UNCHANGED engineVars
  /\ UNCHANGED uiVars
  /\ UNCHANGED pairVars

\* Time passes.
Tick ==
  /\ clock < MaxClock
  /\ clock' = clock + 1
  /\ UNCHANGED <<fs, trashExists, del, res, calls, faults, ledger>>
  /\ UNCHANGED engineVars
  /\ UNCHANGED uiVars
  /\ UNCHANGED pairVars

\* ipcMain.handle('restore-backup'): restoreBackup(backupId, targetPath),
\* from await getBackupsList() (whose getTrashDirectory creates the trash
\* directory when it is missing) to the next awaited call.  The id is one
\* of the listing at that moment, or one that is in no listing (NoId).
RestoreStart(r, id, target) ==
  /\ res[r].pc \in {"idle", "done"}
  /\ \A q \in Restorers : res[q].pc \in {"idle", "done"} => ~Earlier(q, r)
  /\ calls < MaxCalls
  /\ calls' = calls + 1
  /\ \E e \in IF trashExists THEN {""} ELSE MkdirResults(faults) :
       /\ faults' = faults + (IF IsFault(e) THEN 1 ELSE 0)
       /\ trashExists' = (e = "")
       /\ res' = [res EXCEPT ![r] =
                    RestoreDecide(fs, e = "", id, target,
                                  IF e = "" THEN GetBackupsList(fs) ELSE {})]
  /\ UNCHANGED <<fs, clock, del, ledger>>
  /\ UNCHANGED engineVars
  /\ UNCHANGED uiVars
  /\ UNCHANGED pairVars

\* await dialog.showMessageBox(...): 0 is Cancel, 1 is Overwrite.
RestoreDialog(r, response) ==
  /\ res[r].pc = "dialog"
  /\ res' = [res EXCEPT ![r] =
               IF response = 0 THEN RestoreFail(CancelledMsg)
               ELSE [res[r] EXCEPT !.pc = "copy", !.confirmed = TRUE]]
  /\ UNCHANGED <<fs, trashExists, clock, del, calls, faults, ledger>>
  /\ UNCHANGED engineVars
  /\ UNCHANGED uiVars
  /\ UNCHANGED pairVars

\* await copyFile(backup.backupPath, restorationPath), then the return.
RestoreCopy(r) ==
  /\ res[r].pc = "copy"
  /\ LET src == res[r].backupPath
         dst == res[r].path
     IN  \E e \in CopyResults(fs, trashExists, src, dst, faults) :
           /\ faults' = faults + (IF IsFault(e) THEN 1 ELSE 0)
           /\ IF e = ""
              THEN /\ fs' = WriteFile(fs, dst, CopyOf(fs[src], clock))
                   /\ res' = [res EXCEPT ![r] = RestoreOk(dst)]
              ELSE /\ fs' \in FailedCopy(fs, dst, e)
                   /\ res' = [res EXCEPT ![r] = RestoreFail(RestoreErrorMsg(e))]
  /\ UNCHANGED <<trashExists, clock, del, calls, ledger>>
  /\ UNCHANGED engineVars
  /\ UNCHANGED uiVars
  /\ UNCHANGED pairVars

\* ------------------------------------------------- scan and duplicate steps
\* One invocation of scan-directory or find-duplicates runs at a time here:
\* an invocation's progress reporter, queue, maps and counters are its own,
\* so that invocations that overlap take the steps they take alone.
EngineIdle == scan.pc \in {"idle", "done"} /\ dup.pc \in {"idle", "done"}
ScanLogEntry(s) == [op |-> "scan", input |-> s.supplied, emitted |-> Len(s.emitted)]
DupLogEntry(d) == [op |-> "dup", input |-> NoOptions, emitted |-> Len(d.duplicateGroups)]
ScanLogged(s) == IF s.pc = "done" THEN Append(log, ScanLogEntry(s)) ELSE log
DupLogged(d) == IF d.pc = "done" THEN Append(log, DupLogEntry(d)) ELSE log

\* ipcMain.handle('scan-directory') up to await countFiles(...)
ScanStart(sc) ==
  /\ EngineIdle
  /\ Len(log) < MaxScans
  /\ scan' = [IdleScan EXCEPT !.pc = "count", !.supplied = sc, !.config = ScanConfigOf(sc)]
  /\ UNCHANGED <<tree, now, dup, log, cls>>
  /\ UNCHANGED backupVars
  /\ UNCHANGED uiVars
  /\ UNCHANGED pairVars

\* countFiles has returned: the first report; scanDirectory runs to its
\* first readdir.
ScanCount ==
  /\ scan.pc = "count"
  /\ \E total \in {CountFiles(tree, <<>>, scan.config.maxDepth, 0)} :
       \E counted \in {ScanReport([scan EXCEPT !.totalFiles = total,
                                               !.pending = <<(<<>>)>>])} :
         scan' = ScanLoopHead(counted, now)
  /\ log' = ScanLogged(scan')
  /\ UNCHANGED <<tree, now, dup, cls>>
  /\ UNCHANGED backupVars
  /\ UNCHANGED uiVars
  /\ UNCHANGED pairVars

\* await readdir(currentDir): the entries, or the error that is logged.
ScanReaddir ==
  /\ scan.pc = "readdir"
  /\ LET r == Readdir(tree, scan.currentDir)
     IN  scan' = IF r.ok
                 THEN ScanEntryLoop([scan EXCEPT !.entries = r.entries, !.idx = 1,
                                                 !.dirsRead = @ + 1], now)
                 ELSE ScanLoopHead([scan EXCEPT !.currentDepth = @ + 1,
                                                !.dirsRead = @ + 1], now)
  /\ log' = ScanLogged(scan')
  /\ UNCHANGED <<tree, now, dup, cls>>
  /\ UNCHANGED backupVars
  /\ UNCHANGED uiVars
  /\ UNCHANGED pairVars

\* await stat(entryPath)
ScanStat ==
  /\ scan.pc = "stat"
  /\ scan' = ScanAfterStat(scan, now)
  /\ log' = ScanLogged(scan')
  /\ UNCHANGED <<tree, now, dup, cls>>
  /\ UNCHANGED backupVars
  /\ UNCHANGED uiVars
  /\ UNCHANGED pairVars

\* await new Promise(resolve => setTimeout(resolve, 0)) after a batch
ScanYield ==
  /\ scan.pc = "yield"
  /\ scan' = ScanEntryLoop(scan, now)
  /\ log' = ScanLogged(scan')
  /\ UNCHANGED <<tree, now, dup, cls>>
  /\ UNCHANGED backupVars
  /\ UNCHANGED uiVars
  /\ UNCHANGED pairVars

\* ipcMain.handle('find-duplicates') up to the first batch's stats.
DupStartOf(paths, options) ==
  IF Supplied(options, "scanDirectory") /\ options.scanDirectory /\ Len(paths) = 1
  THEN [IdleDup EXCEPT !.pc = "done", !.paths = paths, !.options = options,
                       !.error = IF paths[1] \in DOMAIN DupFs
                                 THEN NoGetAllFilesMsg ELSE NoDirectoryMsg]
  ELSE DupBatch([IdleDup EXCEPT !.paths = paths, !.options = options,
                                !.total = Len(paths),
                                !.reports = <<ProgressEvent(0, Len(paths), 0)>>])
DupStart(paths, options) ==
  /\ EngineIdle
  /\ Len(log) < MaxScans
  /\ dup' = DupStartOf(paths, options)
  /\ log' = DupLogged(dup')
  /\ UNCHANGED <<tree, now, scan, cls>>
  /\ UNCHANGED backupVars
  /\ UNCHANGED uiVars
  /\ UNCHANGED pairVars

\* The tasks of a batch have all settled: Promise.all resolves and the
\* handler waits for the timer.
DupSettled(d) ==
  IF \A k \in 1..Len(d.tasks) : d.tasks[k] = "done" THEN [d EXCEPT !.pc = "yield"] ELSE d

\* Task k: await stat(filePath)
DupStatOf(d, k) ==
  LET p == d.paths[d.i + k]
      skipped == [d EXCEPT !.processed = @ + 1, !.tasks[k] = "done"]
  IN  IF p \notin DOMAIN DupFs THEN DupSettled(skipped)
      ELSE IF DupFs[p].kind = "dir" THEN DupSettled(skipped)
      ELSE IF TooSmall(d.options, Len(DupFs[p].bytes)) THEN DupSettled(skipped)
      ELSE IF TooLarge(d.options, Len(DupFs[p].bytes)) THEN DupSettled(skipped)
      ELSE [d EXCEPT !.tasks[k] = "hash"]
DupStat(k) ==
  /\ dup.pc = "batch"
  /\ k \in 1..Len(dup.tasks)
  /\ dup.tasks[k] = "stat"
  /\ dup' = DupStatOf(dup, k)
  /\ UNCHANGED <<tree, now, scan, log, cls>>
  /\ UNCHANGED backupVars
  /\ UNCHANGED uiVars
  /\ UNCHANGED pairVars

\* Task k: await calculateFileHash(...), then the maps, the count and the
\* report.
DupHashOf(d, k) ==
  LET p == d.paths[d.i + k]
      f == DupFs[p]
      size == Len(f.bytes)
      fileHash == CalculateFileHash(
                    f, IF ExactMatch(d.options) THEN 0
                       ELSE OrDefault(d.options, "sampleSize", DefaultSampleSize))
      item == HashedFile(p, fileHash, size)
  IN  DupSettled(DupReport(
        [d EXCEPT
           !.fileHashes = IF CompareSize(d.options)
                          THEN MapPush(@, size, item) ELSE @,
           !.potentialDuplicates = IF CompareSize(d.options)
                                   THEN @ ELSE MapPush(@, fileHash, item),
           !.processed = @ + 1,
           !.tasks[k] = "done"]))
DupHash(k) ==
  /\ dup.pc = "batch"
  /\ k \in 1..Len(dup.tasks)
  /\ dup.tasks[k] = "hash"
  /\ dup' = DupHashOf(dup, k)
  /\ UNCHANGED <<tree, now, scan, log, cls>>
  /\ UNCHANGED backupVars
  /\ UNCHANGED uiVars
  /\ UNCHANGED pairVars

\* await new Promise(resolve => setTimeout(resolve, 0)): the next batch, or
\* the grouping and the return.
DupYieldOf(d) == DupBatch([d EXCEPT !.i = @ + BATCH_SIZE, !.tasks = <<>>])
DupYield ==
  /\ dup.pc = "yield"
  /\ dup' = DupYieldOf(dup)
  /\ log' = DupLogged(dup')
  /\ UNCHANGED <<tree, now, scan, cls>>
  /\ UNCHANGED backupVars
  /\ UNCHANGED uiVars
  /\ UNCHANGED pairVars

\* ------------------------------------- two find-duplicates invocations
\* The maps named fileHashes and potentialDuplicates: the pair declared at
\* module level (0) and the pair each invocation declares for itself.
EmptyMaps == [fileHashes |-> <<>>, potentialDuplicates |-> <<>>]
Invocations == {1, 2}
IdlePair ==
  [inv |-> [c \in Invocations |-> IdleDup],
   maps |-> [m \in {0} \cup Invocations |-> EmptyMaps],
   \* history: a step of one invocation was taken while the other was running
   overlapped |-> FALSE]
\* The maps the names resolve to in the handler's body.
MapsAtModuleLevel(c) == 0
MapsInScope(c) == c
\* Invocation c with the maps it reads, and the pair after its step to d.
PairLoaded(c) ==
  [pair.inv[c] EXCEPT !.fileHashes = pair.maps[MapsInScope(c)].fileHashes,
                      !.potentialDuplicates = pair.maps[MapsInScope(c)].potentialDuplicates]
PairRunning(c) == pair.inv[c].pc \notin {"idle", "done"}
PairStored(c, d) ==
  [pair EXCEPT !.inv[c] = d,
               !.maps[MapsInScope(c)] = [fileHashes |-> d.fileHashes,
                                         potentialDuplicates |-> d.potentialDuplicates],
               !.overlapped = @ \/ \E o \in Invocations \ {c} : PairRunning(o)]
PairUnchanged ==
  /\ UNCHANGED backupVars
  /\ UNCHANGED engineVars
  /\ UNCHANGED uiVars
PairStart(c, paths, options) ==
  /\ pair.inv[c].pc = "idle"
  /\ pair' = PairStored(c, DupStartOf(paths, options))
  /\ PairUnchanged
PairStat(c, k) ==
  /\ pair.inv[c].pc = "batch"
  /\ k \in 1..Len(pair.inv[c].tasks)
  /\ pair.inv[c].tasks[k] = "stat"
  /\ pair' = PairStored(c, DupStatOf(PairLoaded(c), k))
  /\ PairUnchanged
PairHash(c, k) ==
  /\ pair.inv[c].pc = "batch"
  /\ k \in 1..Len(pair.inv[c].tasks)
  /\ pair.inv[c].tasks[k] = "hash"
  /\ pair' = PairStored(c, DupHashOf(PairLoaded(c), k))
  /\ PairUnchanged
PairYield(c) ==
  /\ pair.inv[c].pc = "yield"
  /\ pair' = PairStored(c, DupYieldOf(PairLoaded(c)))
  /\ PairUnchanged

\* ------------------------------------------------------- classifier steps
\* analyzeFiles([file], config) is called, at the present reading of the
\* clock, with the record and thresholds of this behaviour.
Classify ==
  /\ Len(cls.calls) < MaxClassify
  /\ cls' = [cls EXCEPT !.calls = Append(@, [at |-> now,
                                             out |-> AnalyzeFiles(<<cls.file>>, cls.config, now)[1]])]
  /\ UNCHANGED <<tree, now, scan, dup, log>>
  /\ UNCHANGED backupVars
  /\ UNCHANGED uiVars
  /\ UNCHANGED pairVars

\* Time passes between calls.
ClsTick ==
  /\ cls.ticks < MaxTicks
  /\ now' = now + TickHours
  /\ cls' = [cls EXCEPT !.ticks = @ + 1]
  /\ UNCHANGED <<tree, scan, dup, log>>
  /\ UNCHANGED backupVars
  /\ UNCHANGED uiVars
  /\ UNCHANGED pairVars

\* ---------------------------------------------------------- specification
\* The backup store before any invocation; the engine with nothing running.
\* ------------------------------------------------------------- the window
\* The window when it opens: no directory chosen, no scan running, no
\* listener on the scan-batch and scan-progress channels.
IdleUi ==
  [directoryPath |-> FALSE, scanning |-> FALSE,
   \* calls of handleScan so far; those whose scan-directory has not returned
   started |-> 0, running |-> {},
   \* the call whose callbacks are registered on the channels, 0 when none
   listener |-> 0,
   \* scan-batch events sent by the main process: received by a callback, or
   \* sent when no callback was registered
   received |-> 0, dropped |-> 0,
   \* scheduleConfig.lastRun: whether a scheduled scan has run
   lastRun |-> FALSE]

BackupInit ==
  /\ fs = InitFs
  /\ trashExists = FALSE
  /\ clock = 0
  /\ del = IdleDelete
  /\ res = [r \in Restorers |-> IdleRestore]
  /\ calls = 0
  /\ faults = 0
  /\ ledger = {}
EngineInit ==
  /\ tree = TreeEmpty
  /\ now = ScanNow
  /\ scan = IdleScan
  /\ dup = IdleDup
  /\ log = <<>>
  /\ ui = IdleUi
  /\ pair = IdlePair
  /\ cls = IdleCls

Init == BackupInit /\ EngineInit

Next ==
  \/ \E paths \in PathLists : DeleteStart(paths)
  \/ DeleteMkdir
  \/ DeleteStat
  \/ DeleteCopy
  \/ DeleteWrite
  \/ DeleteUnlink
  \/ Tick
  \/ \E r \in Restorers, target \in RestoreTargets :
       \E id \in {b.id : b \in GetBackupsList(fs)} \cup {NoId} : RestoreStart(r, id, target)
  \/ \E r \in Restorers, response \in {0, 1} : RestoreDialog(r, response)
  \/ \E r \in Restorers : RestoreCopy(r)

Spec == Init /\ [][Next]_vars

\* The scanner: scans of one tree, which does not change.
ScanInit ==
  /\ BackupInit
  /\ tree \in Trees
  /\ now = ScanNow
  /\ scan = IdleScan
  /\ dup = IdleDup
  /\ log = <<>>
  /\ ui = IdleUi
  /\ pair = IdlePair
  /\ cls = IdleCls
ScanStep == ScanCount \/ ScanReaddir \/ ScanStat \/ ScanYield
ScanNext ==
  \/ \E sc \in ScanConfigs : ScanStart(sc)
  \/ ScanCount
  \/ ScanReaddir
  \/ ScanStat
  \/ ScanYield
ScanSpec == ScanInit /\ [][ScanNext]_vars
\* The event loop runs every callback that is due: a scan that has been
\* started takes its next step.
ScanLive == ScanSpec /\ WF_vars(ScanStep)

\* The scanner on the trees that fill a batch.
BatchInit ==
  /\ BackupInit
  /\ tree \in BatchTrees
  /\ now = ScanNow
  /\ scan = IdleScan
  /\ dup = IdleDup
  /\ log = <<>>
  /\ ui = IdleUi
  /\ pair = IdlePair
  /\ cls = IdleCls
BatchSpec == BatchInit /\ [][ScanNext]_vars

\* The duplicate detector: searches over the files of DupFs.
DupInit ==
  /\ BackupInit
  /\ tree = TreeEmpty
  /\ now = ScanNow
  /\ scan = IdleScan
  /\ dup = IdleDup
  /\ log = <<>>
  /\ ui = IdleUi
  /\ pair = IdlePair
  /\ cls = IdleCls
DupNext ==
  \/ \E paths \in DupPathLists, options \in DupOptions : DupStart(paths, options)
  \/ \E k \in 1..BATCH_SIZE : DupStat(k)
  \/ \E k \in 1..BATCH_SIZE : DupHash(k)
  \/ DupYield
DupSpec == DupInit /\ [][DupNext]_vars

\* The classifier: calls on one record with one set of thresholds.
ClassifyInit ==
  /\ BackupInit
  /\ tree = TreeEmpty
  /\ now \in ClsEpochs
  /\ scan = IdleScan
  /\ dup = IdleDup
  /\ log = <<>>
  /\ ui = IdleUi
  /\ pair = IdlePair
  /\ \E f \in ClsFiles, c \in ClsConfigs : cls = [IdleCls EXCEPT !.file = f, !.config = c]
ClassifyNext == Classify \/ ClsTick
ClassifySpec == ClassifyInit /\ [][ClassifyNext]_vars

\* handleScan up to its await: scanning is set, the callbacks of this call
\* replace whatever was registered on the two channels (onScanProgress and
\* onScanBatch remove all listeners, then add theirs), and scan-directory is
\* invoked.  Nothing happens when no directory is chosen.
HandleScanCall(u) ==
  IF ~u.directoryPath THEN u
  ELSE [u EXCEPT !.scanning = TRUE, !.started = @ + 1,
                 !.running = @ \cup {u.started + 1}, !.listener = u.started + 1]
\* handleSelectDirectory: the dialog returns a directory or is cancelled.
UiSelectDirectory ==
  /\ \E chosen \in BOOLEAN : ui' = [ui EXCEPT !.directoryPath = @ \/ chosen]
  /\ UNCHANGED backupVars
  /\ UNCHANGED engineVars
  /\ UNCHANGED pairVars
\* The Scan Now button, disabled={scanning || !directoryPath}
UiScanNow ==
  /\ ui.started < MaxUiScans
  /\ ui.directoryPath /\ ~ui.scanning
  /\ ui' = HandleScanCall(ui)
  /\ UNCHANGED backupVars
  /\ UNCHANGED engineVars
  /\ UNCHANGED pairVars
\* checkSchedule when a scheduled scan is due: if (directoryPath && !scanning)
UiScheduledScan ==
  /\ ui.started < MaxUiScans
  /\ ui.directoryPath /\ ~ui.scanning
  /\ ui' = [HandleScanCall(ui) EXCEPT !.lastRun = TRUE]
  /\ UNCHANGED backupVars
  /\ UNCHANGED engineVars
  /\ UNCHANGED pairVars
\* The run-quick-scan message of the tray menu: if (directoryPath)
\* handleScan(), else the directory dialog is opened.
UiQuickScan ==
  /\ ui.started < MaxUiScans
  /\ IF ui.directoryPath THEN ui' = HandleScanCall(ui)
     ELSE \E chosen \in BOOLEAN : ui' = [ui EXCEPT !.directoryPath = chosen]
  /\ UNCHANGED backupVars
  /\ UNCHANGED engineVars
  /\ UNCHANGED pairVars
\* The main process sends a scan-batch event for an invocation that runs:
\* the callback registered on the channel receives it, if there is one.
UiScanBatch ==
  /\ ui.running # {}
  /\ ui.received + ui.dropped < MaxUiBatches
  /\ ui' = IF ui.listener # 0 THEN [ui EXCEPT !.received = @ + 1]
           ELSE [ui EXCEPT !.dropped = @ + 1]
  /\ UNCHANGED backupVars
  /\ UNCHANGED engineVars
  /\ UNCHANGED pairVars
\* scan-directory returns to call c: the finally block of handleScan clears
\* scanning and removes all listeners of the two channels.
UiScanReturns(c) ==
  /\ c \in ui.running
  /\ ui' = [ui EXCEPT !.running = @ \ {c}, !.scanning = FALSE, !.listener = 0]
  /\ UNCHANGED backupVars
  /\ UNCHANGED engineVars
  /\ UNCHANGED pairVars
UiInit == BackupInit /\ EngineInit
UiNext ==
  \/ UiSelectDirectory
  \/ UiScanNow
  \/ UiScheduledScan
  \/ UiQuickScan
  \/ UiScanBatch
  \/ \E c \in 1..MaxUiScans : UiScanReturns(c)
UiSpec == UiInit /\ [][UiNext]_vars

\* Two find-duplicates invocations whose steps interleave.
PairPathLists == ListsOf({"s1", "s2", "m1", "m2"}, MaxPairPaths) \cup {<<"s1", "m1", "s2">>}
PairOptions == {NoOptions, [compareSize |-> FALSE]}
PairInit == BackupInit /\ EngineInit
PairNext ==
  \/ \E c \in Invocations, paths \in PairPathLists, options \in PairOptions :
       PairStart(c, paths, options)
  \/ \E c \in Invocations, k \in 1..BATCH_SIZE : PairStat(c, k)
  \/ \E c \in Invocations, k \in 1..BATCH_SIZE : PairHash(c, k)
  \/ \E c \in Invocations : PairYield(c)
PairSpec == PairInit /\ [][PairNext]_vars

\* ------------------------------------------------------------------ claims
InFlight == del.pc \notin {"idle", "done"}
Deleted(k) == k \in 1..Len(del.results) /\ del.results[k].deleted
Sidecar(e) == MetadataPathOf(e.backupPath)

\* C1: a step of delete-files removes an original file only when it is the
\* awaited unlink of the entry being processed, and by then both the copy
\* into the trash directory and the write of the sidecar of that entry have
\* succeeded and backupFile has reported success; the copy and the sidecar
\* are in the trash directory at that moment.
C1_UnlinkOnlyAfterBackup ==
  [][\A p \in DOMAIN fs :
       (p \notin DOMAIN fs' /\ Dirname(p) # TrashDir /\ del' # del)
         => /\ del.pc = "unlink"
            /\ p = del.paths[del.i]
            /\ del.copied /\ del.sidecarWritten /\ del.backup.success
            /\ del.backupPath \in DOMAIN fs
            /\ MetadataPathOf(del.backupPath) \in DOMAIN fs]_vars
\* An original has been removed: an outcome with deleted = true.
C1_Witness == \E k \in 1..Len(del.results) : Deleted(k) /\ del.results[k].path \notin DOMAIN fs

\* C2: for every outcome with deleted = true, the trash directory holds at
\* the reported backupPath the bytes that were copied there, and beside it a
\* sidecar whose originalPath is the outcome's path, whatever was backed up
\* afterwards.
C2_BackupsRetained ==
  \A e \in ledger :
    e.deleted =>
      /\ e.backupPath \in DOMAIN fs
      /\ fs[e.backupPath].bytes = e.bytes
      /\ Sidecar(e) \in DOMAIN fs
      /\ fs[Sidecar(e)].json
      /\ fs[Sidecar(e)].originalPath = e.path

\* C3: round trip.  When deleteFiles([P]) has removed P, P does not exist
\* and the listing has a record for P whose size is the size of the file;
\* and when a restore of the backup of P to P succeeds, P has the bytes the
\* file had when it was deleted.
C3_RoundTrip ==
  [][/\ (del.pc = "unlink" /\ Len(del.paths) = 1 /\ del'.pc = "done"
           /\ del'.results[1].deleted)
        => /\ del.paths[1] \notin DOMAIN fs'
           /\ \E b \in GetBackupsList(fs') :
                b.originalPath = del.paths[1] /\ b.size = Len(del.bytes)
     /\ \A r \in Restorers :
          (res[r].pc = "copy" /\ res'[r].pc = "done" /\ res'[r].success)
            => \A e \in ledger :
                 (e.deleted /\ e.backupPath = res[r].backupPath /\ e.path = res[r].path)
                   => (e.path \in DOMAIN fs' /\ fs'[e.path].bytes = e.bytes)]_vars

\* C4: a delete-files invocation of a non-empty list returns one outcome per
\* entry, in order, each with its entry's path, and each either deleted with
\* a backupPath and no error, or not deleted with an error and no
\* backupPath; while it runs it has one outcome per entry it is done with.
C4_OneOutcomePerPath ==
  /\ InFlight => Len(del.results) = del.i - 1
  /\ (del.pc = "done" /\ Len(del.paths) > 0) => Len(del.results) = Len(del.paths)
  /\ \A k \in 1..Len(del.results) :
       LET o == del.results[k]
       IN  /\ o.path = del.paths[k]
           /\ o.deleted => (o.backupPath # NoPath /\ o.error = "")
           /\ ~o.deleted => (o.backupPath = NoPath /\ o.error # "")
\* A list of two has returned a mixture: one entry deleted, one not.
C4_Witness ==
  /\ del.pc = "done" /\ Len(del.paths) = 2
  /\ \E j, k \in 1..2 : del.results[j].deleted /\ ~del.results[k].deleted

\* C5 as stated: for every list, the empty one too, the success flag is the
\* conjunction of deleted over the requested paths.
C5_SuccessIsAllDeleted ==
  del.pc = "done" => (del.success <=> \A k \in 1..Len(del.paths) : Deleted(k))
\* C5 as amended: for a non-empty list the flag is that conjunction; for the
\* empty list it is false, with the error 'No files provided for deletion'.
C5_SuccessIsAllDeletedNonEmpty ==
  del.pc = "done" =>
    IF Len(del.paths) > 0
    THEN del.success <=> \A k \in 1..Len(del.paths) : Deleted(k)
    ELSE ~del.success /\ del.error = NoFilesMsg /\ del.results = <<>>
\* Both answers happen for a list of two.
C5_Witness ==
  /\ del.pc = "done" /\ Len(del.paths) = 2 /\ del.success
  /\ Deleted(1) /\ Deleted(2)

\* C6: an entry whose path does not exist when the handler looks at it gets
\* the outcome deleted = false, error 'File not found', and nothing is done
\* for it: backupFile is not called, so that no directory is made and no
\* copy or sidecar is written for a path that was missing.
C6_Examined(k) ==
  /\ del' # del
  /\ k >= (IF InFlight THEN del.i + 1 ELSE 1)
  /\ k <= del'.i
C6_MissingPathNotFound ==
  [][/\ \A k \in 1..Len(del'.paths) :
          (C6_Examined(k) /\ del'.paths[k] \notin DOMAIN fs')
            => /\ Len(del'.results) >= k
               /\ del'.results[k] =
                    [path |-> del'.paths[k], deleted |-> FALSE, backupPath |-> NoPath,
                     error |-> NotFoundMsg, backupFailed |-> FALSE]
     /\ (del'.pc \in {"mkdir", "stat", "copy", "write", "unlink"})
          => del'.paths[del'.i] \in DOMAIN del'.before]_vars
\* A call with one path, which did not exist, has returned.
C6_Witness ==
  /\ del.pc = "done" /\ Len(del.paths) = 1
  /\ del.results[1].error = NotFoundMsg /\ ~del.results[1].deleted

\* C7: when the backup of an entry fails, the original is where and as it
\* was, and the backups of the entries deleted before it in the same
\* invocation (copy and sidecar) are as they were when the handler came to
\* the failing entry: as if it had not been in the list.
C7_FailedBackupAffectsNoOther ==
  [][(InFlight /\ Len(del'.results) >= del.i /\ del'.paths = del.paths
        /\ del'.results[del.i].backupFailed)
       => /\ ~del'.results[del.i].deleted
          /\ (\A r \in Restorers : res[r].pc = "idle")
               => /\ del.paths[del.i] \in DOMAIN fs'
                  /\ fs'[del.paths[del.i]] = del.before[del.paths[del.i]]
          /\ \A k \in 1..(del.i - 1) :
               del.results[k].deleted =>
                 \A q \in {del.results[k].backupPath,
                           MetadataPathOf(del.results[k].backupPath)} :
                   /\ q \in DOMAIN del.before
                   /\ q \in DOMAIN fs'
                   /\ fs'[q] = del.before[q]]_vars

\* C8: an outcome of 'backup succeeded, removal failed' names the backup
\* that exists, and a later delete-files of the same path does not copy the
\* file into the trash directory again while that backup is there.
C8_RemoveFailed(o) == ~o.deleted /\ ~o.backupFailed /\ o.error # NotFoundMsg
C8_RemoveFailedSkipsBackup ==
  [][/\ \A k \in 1..Len(del'.results) :
          C8_RemoveFailed(del'.results[k]) => del'.results[k].backupPath # NoPath
     /\ (del.pc = "copy" /\ del'.pc = "write")
          => ~\E e \in ledger :
                /\ ~e.deleted /\ e.path = del.paths[del.i]
                /\ e.backupPath \in DOMAIN fs
                /\ fs[e.backupPath].bytes = fs[e.path].bytes]_vars

\* C9: a restore whose restoration path lies in a directory that does not
\* exist returns the error 'Target directory does not exist' and has not
\* called copyFile: it is never waiting for the dialog or the copy, and no
\* file is ever in a directory that does not exist.
C9_MissingTargetDir ==
  /\ \A r \in Restorers :
       (res[r].path # NoPath /\ ~DirExists(trashExists, Dirname(res[r].path)))
         => (res[r].pc = "done" /\ ~res[r].success /\ res[r].error = NoTargetDirMsg)
  /\ \A p \in DOMAIN fs : Dirname(p) \in Dirs \cup {TrashDir}
\* A restore of a backup that exists, to a path under the missing directory,
\* has returned; the backups are listed still.
C9_Witness ==
  \E r \in Restorers :
    /\ res[r].pc = "done" /\ res[r].error = NoTargetDirMsg /\ res[r].path = FileGone
    /\ GetBackupsList(fs) # {}

\* C10: a restore's copyFile replaces the bytes of a file that exists at the
\* target only if the overwrite was confirmed in the dialog of that very
\* invocation.
C10_NoSilentOverwrite ==
  [][\A r \in Restorers :
       (/\ res[r].pc = "copy" /\ res'[r].pc = "done" /\ res'[r].success
        /\ res[r].path \in DOMAIN fs
        /\ fs'[res[r].path].bytes # fs[res[r].path].bytes)
         => res[r].confirmed]_vars

\* C11: a restore for which the caller names no target path and whose backup
\* has no recorded originalPath (the listing then gives 'Unknown') fails and
\* copies nothing: no invocation ever waits for the dialog or the copy with
\* the path 'Unknown', none returns success for it, and no file 'Unknown' is
\* ever made.
C11_NoTargetNoOriginalFails ==
  /\ \A r \in Restorers :
       res[r].path = UnknownPath => (res[r].pc = "done" /\ ~res[r].success)
  /\ UnknownPath \notin DOMAIN fs

\* C12: a step of restoreBackup, whether the invocation goes on, succeeds or
\* fails, leaves the trash directory as it was: the same files with the same
\* bytes and modification times, and the same listing with the same ids.
C12_RestoreLeavesStore ==
  [][res' # res
       => /\ \A p \in DOMAIN fs \cup DOMAIN fs' :
               Dirname(p) = TrashDir
                 => (p \in DOMAIN fs /\ p \in DOMAIN fs' /\ fs'[p] = fs[p])
          /\ GetBackupsList(fs') = GetBackupsList(fs)]_vars

\* The number of levels a file's directory lies below the root.
LevelsBelowRoot(f) == Len(f.path) - 1
\* C13: when the caller supplies maxDepth d >= 0, no file record comes from
\* a directory more than d levels below the root (d = 0: the root only).
C13_DepthBound ==
  Supplied(scan.supplied, "maxDepth")
    => \A k \in 1..Len(scan.emitted) :
         LevelsBelowRoot(scan.emitted[k]) <= scan.supplied.maxDepth

\* A link in a directory that resolves to that directory or to an ancestor.
IsPrefix(a, b) == Len(a) <= Len(b) /\ SubSeq(b, 1, Len(a)) = a
HasLinkCycle(t) ==
  \E d \in DOMAIN t : \E k \in 1..Len(t[d].entries) :
    t[d].entries[k].kind = "link" /\ IsPrefix(t[d].entries[k].target, d)
MostEntries(t) ==
  CHOOSE n \in 0..(MAX_BATCH_SIZE + 1) :
    /\ \A d \in DOMAIN t : Len(t[d].entries) <= n
    /\ \E d \in DOMAIN t : Len(t[d].entries) = n
Running == scan.pc \notin {"idle", "done"}
\* C14: in a tree with a symbolic-link cycle a scan reads at most
\* maxDepth + 1 directories and so emits at most that many directories'
\* entries; every scan that was started returns; and two scans that
\* returned, with the same configuration, emitted the same number of
\* records.
C14_CycleScanTerminates ==
  /\ [](HasLinkCycle(tree)
          => /\ scan.dirsRead <= scan.config.maxDepth + 1
             /\ Len(scan.emitted) <= (scan.config.maxDepth + 1) * MostEntries(tree)
             /\ \A i, j \in 1..Len(log) :
                  (log[i].op = "scan" /\ log[j].op = "scan" /\ log[i].input = log[j].input)
                    => log[i].emitted = log[j].emitted)
  /\ ((HasLinkCycle(tree) /\ Running) ~> (scan.pc = "done"))
\* Two scans of a tree with a cycle have returned, with the same
\* configuration, having gone through the link and emitted files.
C14_Witness ==
  /\ HasLinkCycle(tree)
  /\ scan.pc = "done"
  /\ Len(log) = 2 /\ log[1].input = log[2].input /\ log[2].emitted > 0
  /\ \E k \in 1..Len(scan.emitted) :
       LET dir == SubSeq(scan.emitted[k].path, 1, Len(scan.emitted[k].path) - 1)
       IN  Len(dir) > Len(Resolve(tree, dir))

LastOf(reports) == reports[Len(reports)]
\* C15: the last progress report of a scan, and of a duplicate search that
\* reported progress, has percentage 100.
C15_LastReportIs100 ==
  /\ scan.pc = "done"
       => (Len(scan.reports) > 0 /\ LastOf(scan.reports).percentage = 100)
  /\ (dup.pc = "done" /\ Len(dup.reports) > 0)
       => LastOf(dup.reports).percentage = 100

NonDecreasing(reports) ==
  \A k \in 1..(Len(reports) - 1) :
    /\ reports[k].processed <= reports[k + 1].processed
    /\ reports[k].percentage <= reports[k + 1].percentage
\* C16: the progress reports of one scan, and of one duplicate search, never
\* go down in the processed count nor in the percentage.
C16_ReportsNonDecreasing == NonDecreasing(scan.reports) /\ NonDecreasing(dup.reports)

\* C17: every scan progress report has a percentage in 0..100.
C17_PercentageInRange ==
  \A k \in 1..Len(scan.reports) : scan.reports[k].percentage \in 0..100

\* The root does not exist or cannot be read.
RootInvalid(t) == ~Readdir(t, <<>>).ok
\* C18: a scan returns success = false with an error exactly when its root
\* is invalid; no other directory or entry makes it fail.
C18_InvalidRootFails ==
  scan.pc = "done" =>
    IF RootInvalid(tree) THEN ~scan.success /\ scan.error # ""
    ELSE scan.success

\* C19: any two calls of the classifier on the record and thresholds of a
\* behaviour return the same categories and the same flag, whenever made.
C19_SameAnswerEveryCall ==
  \A i, j \in 1..Len(cls.calls) :
    /\ cls.calls[i].out.categories = cls.calls[j].out.categories
    /\ cls.calls[i].out.isUnneeded = cls.calls[j].out.isUnneeded

\* The large-file threshold in force.
LargeThreshold(config) ==
  OrDefault(config, "scanSizeThreshold", DefaultSizeThresholdMB * BytesPerMB)
HasTag(out, tag) == \E k \in 1..Len(out.categories) : out.categories[k] = tag
\* C20: a record whose accessed timestamp is absent or malformed and whose
\* size exceeds the large-file threshold gets the largeUnused tag.
C20_NoTimestampIsStale ==
  \A i \in 1..Len(cls.calls) :
    (cls.file.accessed.kind \in {"absent", "malformed"}
       /\ cls.file.size > LargeThreshold(cls.config))
      => HasTag(cls.calls[i].out, "largeUnused")

\* The thresholds a scan was configured with, in bytes and in days.
ConfiguredSize(sc) ==
  (IF Supplied(sc, "scanSizeThreshold") THEN sc.scanSizeThreshold
   ELSE DefaultSizeThresholdMB) * BytesPerMB
ConfiguredAge(sc) ==
  IF Supplied(sc, "scanAgeThreshold") THEN sc.scanAgeThreshold ELSE DefaultAgeThreshold
\* The analyzed records a scan has sent in batches or returned.
ScanAnalyzed ==
  UNION {{scan.batches[b].files[k] : k \in 1..Len(scan.batches[b].files)} :
           b \in 1..Len(scan.batches)}
  \cup {scan.data[k] : k \in 1..Len(scan.data)}
DupDone == dup.pc = "done" /\ dup.success
\* The files among the input paths that were hashed, and the hash and size
\* the search took of each.
SampleOf(o) == IF ExactMatch(o) THEN 0 ELSE OrDefault(o, "sampleSize", DefaultSampleSize)
SizeAt(p) == Len(DupFs[p].bytes)
HashAt(p) == CalculateFileHash(DupFs[p], SampleOf(dup.options))
Hashed ==
  {p \in {dup.paths[k] : k \in 1..Len(dup.paths)} \cap DOMAIN DupFs :
     /\ DupFs[p].kind = "file"
     /\ ~TooSmall(dup.options, SizeAt(p))
     /\ ~TooLarge(dup.options, SizeAt(p))
     /\ HashAt(p) # NullHash}
GroupPaths(g) == {g.files[m].path : m \in 1..Len(g.files)}
GroupsWith(p) == {k \in 1..Len(dup.duplicateGroups) : p \in GroupPaths(dup.duplicateGroups[k])}
\* C22: two input files that were hashed, of equal size and equal hash, are
\* in one returned group, the same for both, and in no other; every
\* returned group has two members or more.
C22_EqualFilesShareOneGroup ==
  DupDone =>
    /\ \A p, q \in Hashed :
         (p # q /\ SizeAt(p) = SizeAt(q) /\ HashAt(p) = HashAt(q))
           => \E k \in 1..Len(dup.duplicateGroups) :
                GroupsWith(p) = {k} /\ GroupsWith(q) = {k}
    /\ \A k \in 1..Len(dup.duplicateGroups) : Len(dup.duplicateGroups[k].files) >= 2
\* Three files were searched, two of them equal: the group of the two is
\* returned and the third file is in no group.
C22_Witness ==
  /\ DupDone
  /\ dup.paths = <<"s1", "t1", "s2">>
  /\ GroupsWith("s1") = {1} /\ GroupsWith("s2") = {1} /\ GroupsWith("t1") = {}

\* The sum over the returned groups numbered n and below of the members
\* but one, each counted as 1 or as the group's size.
Redundant(g) == Len(g.files) - 1
TotalOver[n \in Nat] ==
  IF n = 0 THEN 0 ELSE TotalOver[n - 1] + Redundant(dup.duplicateGroups[n])
SavingsOver[n \in Nat] ==
  IF n = 0 THEN 0
  ELSE SavingsOver[n - 1]
       + dup.duplicateGroups[n].size * Redundant(dup.duplicateGroups[n])
\* C23: in every result totalDuplicates is the sum over the returned groups
\* of (members - 1) and potentialSavings the sum of size * (members - 1).
C23_TotalsAreSums ==
  DupDone =>
    /\ dup.totalDuplicates = TotalOver[Len(dup.duplicateGroups)]
    /\ dup.potentialSavings = SavingsOver[Len(dup.duplicateGroups)]
\* Two files of two bytes and two of one byte were searched: two groups, two
\* duplicates, three bytes to save.
C23_Witness ==
  /\ DupDone
  /\ dup.paths = <<"s1", "m1", "s2", "m2">>
  /\ Len(dup.duplicateGroups) = 2
  /\ dup.totalDuplicates = 2 /\ dup.potentialSavings = 3

\* C24: in every returned group every member has the size that the group's
\* size field states.
C24_GroupOfOneSize ==
  DupDone =>
    \A k \in 1..Len(dup.duplicateGroups) :
      \A m \in 1..Len(dup.duplicateGroups[k].files) :
        dup.duplicateGroups[k].files[m].size = dup.duplicateGroups[k].size

\* A search that was handed one directory to walk.
DirectoryWalk ==
  /\ Supplied(dup.options, "scanDirectory") /\ dup.options.scanDirectory
  /\ Len(dup.paths) = 1
  /\ dup.paths[1] \in DOMAIN DupFs /\ DupFs[dup.paths[1]].kind = "dir"
\* C25: a search that was handed one directory to walk returns success (with
\* the groups among the files of the directory).
C25_DirectoryWalkSucceeds ==
  (dup.pc = "done" /\ DirectoryWalk) => (dup.success /\ dup.error = "")

\* ---------------------------------------------------- fileName of a record
\* The characters of new Date().toISOString().replace(/:/g, '-') at clock
\* reading t: 1970-01-01T00-00-00.00tZ.
Digits == <<"0", "1", "2", "3", "4", "5", "6", "7", "8", "9">>
IsoStamp(t) ==
  <<"1", "9", "7", "0", "-", "0", "1", "-", "0", "1", "T", "0", "0", "-",
    "0", "0", "-", "0", "0", ".", "0", "0", Digits[t + 1], "Z">>
\* The characters of one token of a name, and of a whole name.
SpellToken(tok) ==
  IF \E t \in 0..(Len(Timestamps) - 1) : tok = Timestamp(t)
  THEN IsoStamp(CHOOSE t \in 0..(Len(Timestamps) - 1) : tok = Timestamp(t)) \o <<"_">>
  ELSE IF tok = MetaExt
  THEN <<".", "m", "e", "t", "a", ".", "j", "s", "o", "n">>
  ELSE <<tok>>
RECURSIVE Spell(_)
Spell(n) == IF n = <<>> THEN <<>> ELSE SpellToken(Head(n)) \o Spell(Tail(n))
\* The character class [0-9\-TZ_]
StampClass == {Digits[k] : k \in DOMAIN Digits} \cup {"-", "T", "Z", "_"}
\* .replace(/^[0-9\-TZ_]+_/, ''): the longest prefix made of one or more
\* characters of the class followed by '_' is removed; the text is kept
\* whole when there is no such prefix.
StripStampPrefix(cs) ==
  LET ends == {k \in 2..Len(cs) : cs[k] = "_" /\ \A j \in 1..(k - 1) : cs[j] \in StampClass}
      last == CHOOSE k \in ends : \A j \in ends : j <= k
  IN  IF ends = {} THEN cs ELSE SubSeq(cs, last + 1, Len(cs))
\* fileName: path.basename(backupPath).replace(/^[0-9\-TZ_]+_/, '')
FileNameOf(bp) == StripStampPrefix(Spell(Basename(bp)))
\* The records listed for backups whose sidecar names the original file.
ListedWithOriginal == {b \in GetBackupsList(fs) : b.originalPath # UnknownPath}
\* C26: the fileName of every listed record of a backup equals the base name
\* of the original file: the timestamp prefix is stripped, nothing else.
C26_FileNameIsOriginalBaseName ==
  \A b \in ListedWithOriginal :
     FileNameOf(b.backupPath) = Spell(Basename(b.originalPath))

\* ------------------------------------------------- renderer: deleted files
\* r.success as the renderer reads it from an outcome: a field the outcome
\* does not have reads undefined, which is falsy.
ReadsSuccess(r) == "success" \in DOMAIN r /\ r.success = TRUE
\* handleDeleteFiles after the call returned result for filePaths, the
\* in-memory list holding the files prev: the list it sets and the counts it
\* reports.  Nothing is set or reported when result.success is false.
HandleDeleteFiles(prev, filePaths, result) ==
  LET data == result.data
      named == {filePaths[k] : k \in DOMAIN filePaths}
  IN  IF result.success
      THEN [files |-> {f \in prev : f \notin named
                         \/ \E k \in DOMAIN data : data[k].path = f /\ ~ReadsSuccess(data[k])},
            notified |-> TRUE,
            successCount |-> Cardinality({k \in DOMAIN data : ReadsSuccess(data[k])}),
            failCount |-> Cardinality({k \in DOMAIN data : ~ReadsSuccess(data[k])})]
      ELSE [files |-> prev, notified |-> FALSE, successCount |-> 0, failCount |-> 0]
\* The renderer's list before the call (the files of the last scan), and its
\* handling of the delete-files invocation that has returned.
ListedFiles == UserPaths
DeleteHandled ==
  HandleDeleteFiles(ListedFiles, del.paths, [success |-> del.success, data |-> del.results])
\* C27: after delete-files returned, the files whose outcome is deleted are
\* gone from the in-memory list, the files whose deletion failed are still in
\* it, and the reported counts are the numbers of deleted and failed outcomes.
C27_ListFollowsOutcomes ==
  (del.pc = "done" /\ Len(del.paths) > 0) =>
    /\ \A k \in 1..Len(del.results) :
         del.results[k].deleted <=> del.results[k].path \notin DeleteHandled.files
    /\ DeleteHandled.notified
    /\ DeleteHandled.successCount = Cardinality({k \in 1..Len(del.results) : del.results[k].deleted})
    /\ DeleteHandled.failCount = Cardinality({k \in 1..Len(del.results) : ~del.results[k].deleted})

\* A directory of the tree that the filters let through: below the root by
\* readable directories only, none of them hidden or on the deny-list.
PassesFilters(t, d) ==
  /\ d \in DOMAIN t
  /\ \A k \in 1..Len(d) :
       /\ ~PathDenied(SubSeq(d, 1, k))
       /\ ~StartsWithDot(d[k])
       /\ SubSeq(d, 1, k - 1) \in DOMAIN t /\ t[SubSeq(d, 1, k - 1)].readable
       /\ \E e \in EntryNamed(t, SubSeq(d, 1, k - 1), d[k]) : e.kind = "dir"
\* C28: whenever a directory is dequeued the depth counter equals the number
\* of levels the directory lies below the root, and a scan that returned has
\* read every directory at a level <= maxDepth that passes the filters.
C28_DepthCountsLevels ==
  /\ scan.pc = "readdir" => scan.currentDepth = Len(scan.currentDir)
  /\ (scan.pc = "done" /\ scan.success)
       => \A d \in DOMAIN tree :
            (PassesFilters(tree, d) /\ Len(d) <= scan.config.maxDepth) => d \in scan.visited

\* The real file a record denotes: the real directory its path leads to,
\* links followed, and its name.
RealFile(f) == <<Resolve(tree, SubSeq(f.path, 1, Len(f.path) - 1)), f.name>>
\* C29: during a scan no real directory is read under two paths, and no real
\* file is emitted twice.
C29_NoDirectoryReadTwice ==
  /\ \A a, b \in scan.visited : Resolve(tree, a) = Resolve(tree, b) => a = b
  /\ \A i, j \in 1..Len(scan.emitted) :
       RealFile(scan.emitted[i]) = RealFile(scan.emitted[j]) => i = j

\* C30: at every point of a scan the accumulator of records not yet emitted
\* holds at most MAX_BATCH_SIZE records.
C30_AccumulatorBounded == Len(scan.fileStats) <= MAX_BATCH_SIZE

\* ------------------------------------------------------- the batch stream
\* The paths of the records of the first k scan-batch events, in order, and
\* the paths of a sequence of records.
BatchedPaths[k \in Nat] ==
  IF k = 0 THEN <<>>
  ELSE BatchedPaths[k - 1]
       \o [m \in 1..Len(scan.batches[k].files) |-> scan.batches[k].files[m].file.path]
PathsOf(fs_) == [m \in 1..Len(fs_) |-> fs_[m].path]
\* Every record discovered is in one batch, or still in the accumulator.
BatchesPartition ==
  IF scan.pc = "done"
  THEN BatchedPaths[Len(scan.batches)] = PathsOf(scan.emitted)
  ELSE BatchedPaths[Len(scan.batches)] \o PathsOf(scan.fileStats) = PathsOf(scan.emitted)
\* C31: every record discovered is delivered in exactly one scan-batch
\* event, and a scan that delivered a batch ends its stream with one batch
\* flagged isDone, the last one.
C31_StreamEndsWithIsDone ==
  /\ BatchesPartition
  /\ \A b \in 1..Len(scan.batches) : scan.batches[b].isDone => b = Len(scan.batches)
  /\ (scan.pc = "done" /\ Len(scan.batches) > 0) => scan.batches[Len(scan.batches)].isDone
\* C31 as amended: every record discovered is delivered in exactly one
\* scan-batch event; only the last batch of a scan that returned can be
\* flagged isDone; and a batch flagged isDone is sent exactly when records
\* are left in the accumulator at the end of the scan.
C31_IsDoneWhenRecordsAreLeft ==
  /\ BatchesPartition
  /\ \A b \in 1..Len(scan.batches) :
       scan.batches[b].isDone => (b = Len(scan.batches) /\ scan.pc = "done")
  /\ scan.pc = "done" =>
       ((\E b \in 1..Len(scan.batches) : scan.batches[b].isDone) <=> Len(scan.fileStats) > 0)
\* A scan has returned after a batch at the batch size and a last batch;
\* and (the other case) after a batch at the batch size only.
C31_Witness ==
  /\ scan.pc = "done" /\ Len(scan.batches) = 2
  /\ ~scan.batches[1].isDone /\ scan.batches[2].isDone
  /\ Len(scan.batches[1].files) = MAX_BATCH_SIZE

\* ------------------------------------------------- renderer: scanned files
\* The batch listener of handleScan: the records of a batch are put in a Map
\* keyed by path, a record replacing the one of the same path, a new path
\* going last.
RECURSIVE MergeBatch(_, _, _)
MergeBatch(prevFiles, files, m) ==
  IF m > Len(files) THEN prevFiles
  ELSE LET f == files[m]
           at == {k \in 1..Len(prevFiles) : prevFiles[k].file.path = f.file.path}
       IN  MergeBatch(IF at = {} THEN Append(prevFiles, f)
                      ELSE [prevFiles EXCEPT ![CHOOSE k \in at : TRUE] = f],
                      files, m + 1)
\* The collection after the first k batches, from setFiles([]).
RECURSIVE MergedBatches(_, _)
MergedBatches(batches, k) ==
  IF k = 0 THEN <<>>
  ELSE MergeBatch(MergedBatches(batches, k - 1), batches[k].files, 1)
\* handleScan, for a scan that delivered batches and returned result: the
\* files value it tests after the await is the one of the render in which it
\* was called, empty or not as the collection was at the call.
HandleScan(emptyAtCall, batches, result) ==
  LET merged == MergedBatches(batches, Len(batches))
  IN  IF result.success /\ emptyAtCall /\ Len(result.data) > 0
      THEN result.data ELSE merged
\* The collection is empty when the first scan is called; at a later call
\* it holds what the scan before left, which is nothing only if that scan
\* found nothing.
EmptyAtCall == Len(log) <= 1 \/ log[Len(log) - 1].emitted = 0
ScanHandled ==
  HandleScan(EmptyAtCall, scan.batches, [success |-> scan.success, data |-> scan.data])
\* C32: after a scan that delivered several batches has completed, the
\* caller's collection holds every file of every batch.
C32_CollectionHoldsEveryBatch ==
  (scan.pc = "done" /\ scan.success /\ Len(scan.batches) > 1)
    => \A b \in 1..Len(scan.batches) : \A m \in 1..Len(scan.batches[b].files) :
         \E k \in 1..Len(ScanHandled) :
           ScanHandled[k].file.path = scan.batches[b].files[m].file.path

\* C33: at most one scan-directory invocation is in progress at any time,
\* and the callbacks of a scan in progress stay registered until it returns.
C33_OneScanAtATime ==
  /\ Cardinality(ui.running) <= 1
  /\ \A c \in ui.running : ui.listener = c

\* ---------------------------------------------- interleaved invocations
\* An invocation run alone from d to its return: its tasks settle one after
\* the other.
RECURSIVE RunAlone(_)
RunAlone(d) ==
  IF d.pc = "yield" THEN RunAlone(DupYieldOf(d))
  ELSE IF d.pc = "batch"
  THEN LET k == CHOOSE j \in 1..Len(d.tasks) :
                  d.tasks[j] # "done" /\ \A h \in 1..(j - 1) : d.tasks[h] = "done"
       IN  RunAlone(IF d.tasks[k] = "stat" THEN DupStatOf(d, k) ELSE DupHashOf(d, k))
  ELSE d
\* What an invocation returned: its groups (whatever their order and the
\* order of their members) and its totals.
Returned(d) ==
  [success |-> d.success, error |-> d.error,
   groups |-> {[hash |-> g.hash, size |-> g.size, members |-> GroupPaths(g),
                count |-> Len(g.files)] :
                 g \in {d.duplicateGroups[k] : k \in 1..Len(d.duplicateGroups)}},
   totalDuplicates |-> d.totalDuplicates, potentialSavings |-> d.potentialSavings]
\* C34: each of two find-duplicates invocations whose steps interleave
\* returns the groups and totals it returns when it runs alone on its
\* input, and the maps of one hold no file of the other.
C34_InterleavedAsAlone ==
  \A c \in Invocations :
    /\ pair.inv[c].pc = "done" =>
         Returned(pair.inv[c])
           = Returned(RunAlone(DupStartOf(pair.inv[c].paths, pair.inv[c].options)))
    /\ MapsInScope(c) \notin {MapsInScope(o) : o \in Invocations \ {c}}
\* Both invocations returned groups, after steps of each were taken while
\* the other was running.
C34_Witness ==
  /\ pair.overlapped
  /\ \A c \in Invocations :
       pair.inv[c].pc = "done" /\ Len(pair.inv[c].duplicateGroups) > 0
  /\ pair.inv[1].paths # pair.inv[2].paths

\* The candidate files of the search in flight: the paths that are files.
Candidates == {j \in 1..Len(dup.paths) :
                 dup.paths[j] \in DOMAIN DupFs /\ DupFs[dup.paths[j]].kind = "file"}
\* C35: with the size pre-filter on, the content hash of a file is computed
\* only if another candidate file has its byte size.
C35_UniqueSizeNeverHashed ==
  (dup.pc = "batch" /\ CompareSize(dup.options))
    => \A k \in 1..Len(dup.tasks) :
         dup.tasks[k] = "hash"
           => \E j \in Candidates \ {dup.i + k} :
                SizeAt(dup.paths[j]) = SizeAt(dup.paths[dup.i + k])

\* C36: two successful backups of different files are stored under
\* different backup paths, whatever the clock read when they ran.
C36_BackupNamesDiffer ==
  \A e1, e2 \in ledger : e1.path # e2.path => e1.backupPath # e2.backupPath

\* ------------------------------------------ renderer: duplicates to delete
\* When each file of DupFs was last modified (hours).
DupModified(p) ==
  IF p \in {"s1", "m2", "long1"} THEN ScanNow - HoursPerDay
  ELSE IF p \in {"s2", "m1", "long2"} THEN ScanNow - 1
  ELSE ScanNow
\* getFilesToDelete for one group under a selection: 'all', 'newest' (the
\* first file is kept), 'oldest' (the last file is kept), 'none', or the
\* path of the file to keep.
GroupFilesToDelete(group, selectionType) ==
  LET files == group.files
  IN  IF selectionType = "all" THEN [k \in 1..Len(files) |-> files[k].path]
      ELSE IF selectionType = "newest"
      THEN [k \in 1..(Len(files) - 1) |-> files[k + 1].path]
      ELSE IF selectionType = "oldest"
      THEN [k \in 1..(Len(files) - 1) |-> files[k].path]
      ELSE IF selectionType = "none" THEN <<>>
      ELSE SelectSeq([k \in 1..Len(files) |-> files[k].path],
                     LAMBDA q : q # selectionType)
SelectionTypes == {"all", "newest", "oldest", "none"} \cup DupPaths
ToDelete(group, selectionType) ==
  {GroupFilesToDelete(group, selectionType)[k] :
     k \in 1..Len(GroupFilesToDelete(group, selectionType))}
Newest(group) ==
  {q \in GroupPaths(group) : \A o \in GroupPaths(group) : DupModified(o) <= DupModified(q)}
Oldest(group) ==
  {q \in GroupPaths(group) : \A o \in GroupPaths(group) : DupModified(q) <= DupModified(o)}
\* C37: for a group resolved with 'newest' (with 'oldest') the files to
\* delete are the members other than the one modified last (first), and
\* every selection but 'all' leaves a member of the group out.
C37_KeepNewestKeepsNewest ==
  DupDone =>
    \A n \in 1..Len(dup.duplicateGroups) :
      LET group == dup.duplicateGroups[n]
      IN  /\ ToDelete(group, "newest") = GroupPaths(group) \ Newest(group)
          /\ ToDelete(group, "oldest") = GroupPaths(group) \ Oldest(group)
          /\ \A t \in SelectionTypes \ {"all"} : ToDelete(group, t) # GroupPaths(group)

\* C38: a file whose content could not be read, so that its hash could not
\* be computed, is a member of no returned group.
C38_UnhashedInNoGroup ==
  DupDone =>
    \A n \in 1..Len(dup.duplicateGroups) :
      \A q \in GroupPaths(dup.duplicateGroups[n]) : DupFs[q].readable

\* C39: when the backup of an entry reports failure, the trash directory
\* holds no content copy and no sidecar from that attempt: what is at the
\* attempt's backup path and sidecar path is what was there when the
\* handler came to the entry, and so is the listing.
C39_FailedBackupLeavesNothing ==
  [][(InFlight /\ Len(del'.results) >= del.i /\ del'.paths = del.paths
        /\ del'.results[del.i].backupFailed)
       => /\ \A q \in {del.backupPath, MetadataPathOf(del.backupPath)} :
               q \in DOMAIN fs' => (q \in DOMAIN del.before /\ fs'[q] = del.before[q])
          /\ (\A r \in Restorers : res[r].pc = "idle")
               => GetBackupsList(fs') = GetBackupsList(del.before)]_vars

\* C40: the listing has exactly one record for every content copy that a
\* successful backup stored and that is in the trash directory, whatever
\* the name of the original file, and no record for a sidecar.
C40_OneRecordPerContentCopy ==
  /\ \A e \in ledger :
       e.backupPath \in DOMAIN fs
         => Cardinality({b \in GetBackupsList(fs) : b.backupPath = e.backupPath}) = 1
  /\ \A b \in GetBackupsList(fs) : \A e \in ledger : b.backupPath # Sidecar(e)

====
